---- MODULE Spec2Model ----
(***************************************************************************)
(* Model of the lexical search core of Cons.AI (services/lexicologia.ts):  *)
(* paragraph segmentation, literal search with pipe restructuring, inline  *)
(* markdown parsing, term highlighting and the DOCX export numbering.      *)
(*                                                                         *)
(* A JavaScript string is a sequence of one-character strings.             *)
(***************************************************************************)
EXTENDS Integers, Sequences, FiniteSets, TLC

\* the grave accent (backquote) character, which a TLA+ string cannot hold
Backtick == "backquote"

VARIABLES
    \* searchInFiles: the arguments of the call and what it produced
    files, selectedFileIds, searchTerm, results, debugInfo, outcome,
    \* the calls of searchInFiles made so far, with their arguments
    calls,
    \* LexicalModule: the other state of the component, the position of its
    \* handlers, the uploads under way and made, the term of the call that
    \* gave the results on display; FileConfigurationTab: localSelection
    isSearching, isLoadingDataFiles, showConfiguration, localSelection,
    searchPc, pendingUploads, uploadCount, producedBy,
    \* getFormattedTextSegments: the paragraph, the term, the two stages
    text, term, segments, highlighted, fmtDone,
    \* processTextWithHighlight: what the results panel renders for them
    rendered, renderDone,
    \* processFoundParagraph: the paragraph, the term and the result
    paragraph, pTerm, processed, pDebug, pDone,
    \* exportToDocx: the arguments, the position in the function, the output
    xResults, xTerm, xpc, paragraphCounter, children, xError,
    \* handleExportDocx: the debugInfo on display, isExporting, the toast
    \* shown, and the file name given to saveAs
    xDebugInfo, isExporting, toast, savedAs,
    \* splitTextIntoParagraphs: the document body, the result, the body made
    \* of the paragraphs joined again and its result
    docText, splitResult, delimiter, joined, splitAgain, segDone,
    \* the candidate held by chosenMethod after the rule chain and after
    \* each of the two safety checks
    chosenSteps,
    \* OpenAIService: the map of ConversationStorage, the call that awaits
    \* the API, the last request sent and how many were sent, the outcome of
    \* the last call that ended
    conversationStorage, pending, lastRequest, requestCount, chatResult,
    \* the ids of the responses received for each conversation, and those
    \* received before its last reset
    receivedIds, staleIds

moduleVars == <<isSearching, isLoadingDataFiles, showConfiguration, localSelection,
                searchPc, pendingUploads, uploadCount, producedBy>>
searchVars == <<files, selectedFileIds, searchTerm, results, debugInfo, outcome,
                calls, moduleVars>>
fmtVars    == <<text, term, segments, highlighted, fmtDone, rendered, renderDone>>
paraVars   == <<paragraph, pTerm, processed, pDebug, pDone>>
exportVars == <<xResults, xTerm, xpc, paragraphCounter, children, xError,
                xDebugInfo, isExporting, toast, savedAs>>
segVars    == <<docText, splitResult, delimiter, joined, splitAgain, segDone,
                chosenSteps>>
chatVars   == <<conversationStorage, pending, lastRequest, requestCount,
                chatResult, receivedIds, staleIds>>
vars       == <<searchVars, fmtVars, paraVars, exportVars, segVars, chatVars>>

----------------------------------------------------------------------------
(* Bounds of the model *)

\* longest formatted text, in tokens of FmtTokens
MaxTokens == 4

\* the calls one caller makes
MaxCalls == 3

\* the files uploaded in the file configuration tab
MaxUploads == 2

\* the pieces the formatted texts are built from
FmtTokens ==
    { <<"a">>, <<"A">>, <<".">>, <<"(">>, <<"*">>, <<"*", "*">>, <<Backtick>>,
      <<"~", "~">>, <<"\n">> }

\* longest restructured paragraph, in characters of ParaChars
MaxParaLen == 5

\* the characters of the restructured paragraphs
ParaChars == {"a", "A", "b", "|", " "}

\* the search terms of the restructuring
ParaTerms == { <<"a">>, <<" ", "A">>, <<"a", "b">>, <<"a", " ", "b">>, <<"|">> }

\* the example of the specification
ExampleParagraph ==
    << "I", "n", "t", "r", "o", " ", "t", "e", "x", "t", " ", "|", " ",
    "m", "e", "n", "t", "i", "o", "n", "s", " ", "a", "b", "c", " ",
    "h", "e", "r", "e", " ", "|", " ", "u", "n", "r", "e", "l", "a",
    "t", "e", "d", " ", "c", "l", "a", "u", "s", "e", " ", "|", " ",
    "a", "n", "o", "t", "h", "e", "r", " ", "a", "b", "c", " ", "m",
    "e", "n", "t", "i", "o", "n" >>

ExampleTerm == <<"a", "b", "c">>

ExampleRestructured ==
    << "I", "n", "t", "r", "o", " ", "t", "e", "x", "t", " ", "m", "e",
    "n", "t", "i", "o", "n", "s", " ", "a", "b", "c", " ", "h", "e",
    "r", "e", " ", "a", "n", "o", "t", "h", "e", "r", " ", "a", "b",
    "c", " ", "m", "e", "n", "t", "i", "o", "n" >>

\* most paragraphs per document
MaxParas == 2

\* the lines the documents are built from
SearchLines ==
    { <<"a", "a", "a">>, <<"A", ".", "b">>, <<"(", ".", "a">>,
      <<"b", "|", "a", "|", "b">>, <<"b", "b", "b">>, <<"a">> }

\* what separates the lines of a document
LineSeparators == { <<"\n">>, <<"\r", "\n">>, <<"\n", " ", "\n">> }

\* the search terms of searchInFiles
SearchTerms ==
    { <<"a">>, <<" ", "A">>, <<"a", "a">>, <<".">>, <<"(">>, <<" ">>, <<>> }

\* the ids a selection is made of: the two documents and an id of no document
SelectableIds == {"f1", "f2", "gone"}

\* most results handed to exportToDocx
MaxResults == 2

\* the numbers of paragraphs a result handed to exportToDocx can hold
FoundCounts == {1, 2, 9, 98, 101}

\* the paragraph texts of the exported results: every paragraph of a result
\* holds the same text
ExportTexts == { <<"a">>, <<".", "*", "A", "*">> }

\* most tokens in a short document body of the segmentation
MaxBodyTokens == 5

\* the tokens the short document bodies are made of
BodyTokens == { <<"a", "a", "a">>, <<"a">>, <<" ">>, <<"\n">>, <<"\r">> }

\* the documents of whole lines: <<m, n, g>> is m lines of eleven letters,
\* then n lines of three letters of which every (g + 1)-th is empty instead
LineDocShapes ==
    { <<0, 5, 5>>, <<0, 10, 1>>, <<8, 0, 1>>, <<6, 4, 9>>, <<6, 1, 9>>,
      <<0, 501, 501>>, <<0, 500, 500>>, <<501, 130, 700>>, <<0, 1002, 1>>, <<0, 750, 4>>, <<0, 606, 100>>,
      <<10, 600, 700>>, <<150, 400, 500>>, <<5, 750, 4>>, <<4, 750, 4>> }

\* the documents of short pieces: <<i, n, t>> is n pieces of one letter, a
\* piece of eleven letters and t pieces of three letters, with an empty line
\* (i = 1) or a line of one blank (i = 2) between the pieces
PieceDocShapes ==
    { <<1, 499, 1>>, <<1, 499, 2>>, <<2, 499, 1>>, <<2, 499, 2>>, <<1, 3, 1>> }

\* the documents of 1500 characters in 61 lines, one of them empty:
\* <<b, s, l>> is a line of letters that fills the document up, b lines of
\* one blank, s lines of three letters, l lines of eleven letters, the
\* empty line, and lines of eleven letters up to the 61st
ExampleDocShapes ==
    { shape \in {0, 1, 57} \X {0, 1, 12, 13, 20, 50, 56} \X {0, 1, 30} :
        shape[1] + shape[2] + shape[3] <= 58 }

\* most tokens in a paragraph that is both rendered and exported
MaxRenderTokens == 3

\* the search terms of the formatting pipeline
FmtTerms ==
    { <<"a">>, <<" ", "A">>, <<".">>, <<"a", ".">>, <<"(">>, <<" ">>, <<>> }

----------------------------------------------------------------------------
(* JavaScript string primitives *)

\* String.prototype.toLowerCase on the characters of the model
LowerChar(c) ==
    CASE c = "A" -> "a"
      [] c = "B" -> "b"
      [] OTHER -> c

toLowerCase(s) == [i \in 1..Len(s) |-> LowerChar(s[i])]

\* the line terminators, which "." does not match
LineTerminators == {"\n", "\r"}

\* what String.prototype.trim strips and \s matches
WhiteSpace == {" ", "\t", "\n", "\r"}

RECURSIVE trimStart(_)
trimStart(s) ==
    IF s # <<>> /\ Head(s) \in WhiteSpace THEN trimStart(Tail(s)) ELSE s

RECURSIVE trimEnd(_)
trimEnd(s) ==
    IF s # <<>> /\ s[Len(s)] \in WhiteSpace
    THEN trimEnd(SubSeq(s, 1, Len(s) - 1))
    ELSE s

trim(s) == trimEnd(trimStart(s))

\* t occurs in s at position i (1-based)
OccursAt(s, t, i) ==
    /\ i >= 1
    /\ i + Len(t) - 1 <= Len(s)
    /\ \A k \in 1..Len(t) : s[i + k - 1] = t[k]

\* String.prototype.includes
includes(s, t) == \E i \in 1..(Len(s) + 1) : OccursAt(s, t, i)

startsWith(s, t) == OccursAt(s, t, 1)

endsWith(s, t) == Len(t) <= Len(s) /\ OccursAt(s, t, Len(s) - Len(t) + 1)

\* String.prototype.slice(a, -b) for a, b >= 0
sliceBoth(s, a, b) ==
    IF a + 1 > Len(s) - b THEN <<>> ELSE SubSeq(s, a + 1, Len(s) - b)

\* String.prototype.substring(from), 0-based
substringFrom(s, from) == SubSeq(s, from + 1, Len(s))

\* String.prototype.substring(from, to), 0-based, to exclusive
substring(s, from, to) == SubSeq(s, from + 1, to)

\* Array.prototype.join of an array of strings
\* Array.prototype.join, by halves
RECURSIVE join(_, _)
join(parts, sep) ==
    IF Len(parts) = 0 THEN <<>>
    ELSE IF Len(parts) = 1 THEN parts[1]
    ELSE join(SubSeq(parts, 1, Len(parts) \div 2), sep) \o sep
         \o join(SubSeq(parts, Len(parts) \div 2 + 1, Len(parts)), sep)

\* String.prototype.split on a string separator that repeats one character,
\* as the separators of the program do ("\n", "\n\n", "|").  The matches
\* are taken from left to right without overlap: in a run of the character
\* that starts at position p they are at p, p + Len(sep), p + 2 * Len(sep), ...
RECURSIVE runStart(_, _)
runStart(s, i) == IF i > 1 /\ s[i - 1] = s[i] THEN runStart(s, i - 1) ELSE i

splitPoints(s, sep) ==
    SelectSeq([i \in 1..Len(s) |-> i],
              LAMBDA i : /\ OccursAt(s, sep, i)
                         /\ (i - runStart(s, i)) % Len(sep) = 0)

\* the pieces between the matches at the positions at, each match len long
piecesBetween(s, at, len) ==
    [k \in 1..(Len(at) + 1) |->
        SubSeq(s, IF k = 1 THEN 1 ELSE at[k - 1] + len,
                  IF k = Len(at) + 1 THEN Len(s) ELSE at[k] - 1)]

split(s, sep) == piecesBetween(s, splitPoints(s, sep), Len(sep))

----------------------------------------------------------------------------
(* Regular expressions, for the patterns the program builds.  A pattern is *)
(* compiled to a sequence of atoms; the characters of the model are        *)
(* letters, blanks, ".", "(", ")" and the backslash escape.                *)

RegExpSpecials == {".", "*", "+", "?", "^", "$", "{", "}", "(", ")", "|", "[", "]", "\\"}

\* escapeRegExp without the escaping: the term is used as a pattern as it is
escapeRegExpNone(s) == s

\* term.replace(/[.*+?^${}()|[\]\\]/g, '\\$&')
RECURSIVE escapeRegExp(_)
escapeRegExp(s) ==
    IF s = <<>> THEN <<>>
    ELSE (IF Head(s) \in RegExpSpecials THEN <<"\\", Head(s)>> ELSE <<Head(s)>>)
         \o escapeRegExp(Tail(s))

\* new RegExp(source): ok is FALSE when the constructor throws a SyntaxError
\* (an unterminated group, an unmatched ")", a trailing backslash)
RECURSIVE compileFrom(_, _, _, _)
compileFrom(src, i, depth, atoms) ==
    IF i > Len(src)
    THEN [ok |-> depth = 0, atoms |-> atoms]
    ELSE IF src[i] = "\\"
         THEN IF i = Len(src)
              THEN [ok |-> FALSE, atoms |-> atoms]
              ELSE compileFrom(src, i + 2, depth,
                               Append(atoms, [any |-> FALSE, ch |-> src[i + 1]]))
    ELSE IF src[i] = "("
         THEN compileFrom(src, i + 1, depth + 1, atoms)
    ELSE IF src[i] = ")"
         THEN IF depth = 0
              THEN [ok |-> FALSE, atoms |-> atoms]
              ELSE compileFrom(src, i + 1, depth - 1, atoms)
    ELSE IF src[i] = "."
         THEN compileFrom(src, i + 1, depth, Append(atoms, [any |-> TRUE, ch |-> "."]))
    ELSE compileFrom(src, i + 1, depth, Append(atoms, [any |-> FALSE, ch |-> src[i]]))

RegExp(src) == compileFrom(src, 1, 0, <<>>)

\* the atoms match s at position i; ignoreCase is the "i" flag
regexMatchAt(atoms, s, i, ignoreCase) ==
    /\ i + Len(atoms) - 1 <= Len(s)
    /\ \A k \in 1..Len(atoms) :
          IF atoms[k].any
          THEN s[i + k - 1] \notin LineTerminators
          ELSE IF ignoreCase
               THEN LowerChar(s[i + k - 1]) = LowerChar(atoms[k].ch)
               ELSE s[i + k - 1] = atoms[k].ch

\* (s.match(regex) || []).length for a regex with the "g" flag: the leftmost
\* non-overlapping matches, an empty match advancing by one character
RECURSIVE matchCountFrom(_, _, _)
matchCountFrom(atoms, s, i) ==
    IF i + Len(atoms) - 1 > Len(s) THEN 0
    ELSE IF regexMatchAt(atoms, s, i, FALSE)
         THEN 1 + matchCountFrom(atoms, s, i + (IF Len(atoms) = 0 THEN 1 ELSE Len(atoms)))
         ELSE matchCountFrom(atoms, s, i + 1)

matchCount(atoms, s) == matchCountFrom(atoms, s, 1)

\* s.split(regex) for a regex /(...)/gi whose one capturing group spans the
\* whole non-empty pattern: the pieces between the matches alternate with
\* the matched texts
RECURSIVE splitCaptureFrom(_, _, _, _)
splitCaptureFrom(atoms, s, start, i) ==
    IF i + Len(atoms) - 1 > Len(s)
    THEN <<SubSeq(s, start, Len(s))>>
    ELSE IF regexMatchAt(atoms, s, i, TRUE)
         THEN <<SubSeq(s, start, i - 1), SubSeq(s, i, i + Len(atoms) - 1)>>
              \o splitCaptureFrom(atoms, s, i + Len(atoms), i + Len(atoms))
         ELSE splitCaptureFrom(atoms, s, start, i + 1)

\* the empty pattern matches between any two characters: the characters
\* alternate with empty matched texts, and the empty string has no piece
splitCapture(atoms, s) ==
    IF Len(atoms) = 0
    THEN [k \in 1..(IF Len(s) = 0 THEN 0 ELSE 2 * Len(s) - 1) |->
            IF k % 2 = 1 THEN <<s[(k + 1) \div 2]>> ELSE <<>>]
    ELSE splitCaptureFrom(atoms, s, 1, 1)

----------------------------------------------------------------------------
(* splitByMarkdown: the inline format parser *)

Segment(t, bold, italic, code, strike, hl) ==
    [text |-> t, isBold |-> bold, isItalic |-> italic, isCode |-> code,
     isStrikethrough |-> strike, isHighlighted |-> hl]

PlainSegment(t) == Segment(t, FALSE, FALSE, FALSE, FALSE, FALSE)

\* the delimiters of markdownRegex, one per alternative, in its order
MarkdownDelims == << <<"*", "*">>, <<"*">>, <<Backtick>>, <<"~", "~">> >>

\* the lazy wildcard run followed by the closing delimiter: the first position from j
\* where the delimiter occurs with no line terminator before it, 0 if none
RECURSIVE findClose(_, _, _)
findClose(s, delim, j) ==
    IF j + Len(delim) - 1 > Len(s) THEN 0
    ELSE IF OccursAt(s, delim, j) THEN j
    ELSE IF s[j] \in LineTerminators THEN 0
    ELSE findClose(s, delim, j + 1)

\* the length of the match of one alternative at position i, 0 if none
altMatchLen(s, delim, i) ==
    IF OccursAt(s, delim, i)
    THEN LET j == findClose(s, delim, i + Len(delim))
         IN  IF j = 0 THEN 0 ELSE j + Len(delim) - i
    ELSE 0

\* the alternatives are tried in order at one position
RECURSIVE markdownMatchLenFrom(_, _, _)
markdownMatchLenFrom(s, i, k) ==
    IF k > Len(MarkdownDelims) THEN 0
    ELSE IF altMatchLen(s, MarkdownDelims[k], i) > 0
         THEN altMatchLen(s, MarkdownDelims[k], i)
         ELSE markdownMatchLenFrom(s, i, k + 1)

markdownMatchLen(s, i) == markdownMatchLenFrom(s, i, 1)

\* markdownRegex.exec(text) from position i: the position of the next match, 0 if none
RECURSIVE markdownExec(_, _)
markdownExec(s, i) ==
    IF i > Len(s) THEN 0
    ELSE IF markdownMatchLen(s, i) > 0 THEN i
    ELSE markdownExec(s, i + 1)

\* styledSegment without the slice: the delimiters stay in the text
styledSegmentKeep(matchedText) ==
    Segment(matchedText, startsWith(matchedText, <<"*", "*">>), FALSE, FALSE, FALSE, FALSE)

\* the segment pushed for one match: its kind and its text without the syntax
styledSegment(matchedText) ==
    IF startsWith(matchedText, <<"*", "*">>) /\ endsWith(matchedText, <<"*", "*">>)
    THEN Segment(sliceBoth(matchedText, 2, 2), TRUE, FALSE, FALSE, FALSE, FALSE)
    ELSE IF startsWith(matchedText, <<"*">>) /\ endsWith(matchedText, <<"*">>)
    THEN Segment(sliceBoth(matchedText, 1, 1), FALSE, TRUE, FALSE, FALSE, FALSE)
    ELSE IF startsWith(matchedText, <<Backtick>>) /\ endsWith(matchedText, <<Backtick>>)
    THEN Segment(sliceBoth(matchedText, 1, 1), FALSE, FALSE, TRUE, FALSE, FALSE)
    ELSE IF startsWith(matchedText, <<"~", "~">>) /\ endsWith(matchedText, <<"~", "~">>)
    THEN Segment(sliceBoth(matchedText, 2, 2), FALSE, FALSE, FALSE, TRUE, FALSE)
    ELSE PlainSegment(matchedText)

\* the while loop; lastIndex is 0-based as in the code
RECURSIVE splitByMarkdownFrom(_, _)
splitByMarkdownFrom(s, lastIndex) ==
    LET at == markdownExec(s, lastIndex + 1)
    IN  IF at = 0
        THEN IF lastIndex < Len(s)
             THEN <<PlainSegment(substringFrom(s, lastIndex))>>
             ELSE <<>>
        ELSE LET index       == at - 1
                 matchedText == SubSeq(s, at, at + markdownMatchLen(s, at) - 1)
                 before      == IF index > lastIndex
                                THEN <<PlainSegment(substring(s, lastIndex, index))>>
                                ELSE <<>>
             IN  before \o <<styledSegment(matchedText)>>
                 \o splitByMarkdownFrom(s, index + Len(matchedText))

splitByMarkdown(s) == splitByMarkdownFrom(s, 0)

----------------------------------------------------------------------------
(* applyHighlightToSegments: the highlight compositor.  A function that    *)
(* can throw returns [threw, value].                                       *)

\* highlightParts with the pieces lower-cased like the term
highlightPartsLower(segment, parts, processedTerm) ==
    LET kept == SelectSeq(parts, LAMBDA part : part # <<>>)
    IN  [k \in 1..Len(kept) |->
            [segment EXCEPT !.text = toLowerCase(kept[k]),
                            !.isHighlighted = (toLowerCase(kept[k]) = processedTerm)]]

\* the body of parts.forEach for one segment whose text contains the term
highlightParts(segment, parts, processedTerm) ==
    LET kept == SelectSeq(parts, LAMBDA part : part # <<>>)
    IN  [k \in 1..Len(kept) |->
            [segment EXCEPT !.text = kept[k],
                            !.isHighlighted = (toLowerCase(kept[k]) = processedTerm)]]

\* the body of segments.forEach for one segment
highlightSegment(segment, processedTerm) ==
    IF includes(toLowerCase(segment.text), processedTerm)
    THEN LET regex == RegExp(<<"(">> \o escapeRegExp(processedTerm) \o <<")">>)
         IN  IF regex.ok
             THEN [threw |-> FALSE,
                   value |-> highlightParts(segment,
                                            splitCapture(regex.atoms, segment.text),
                                            processedTerm)]
             ELSE [threw |-> TRUE, value |-> <<>>]
    ELSE [threw |-> FALSE, value |-> <<segment>>]

RECURSIVE highlightAll(_, _)
highlightAll(segs, processedTerm) ==
    IF segs = <<>> THEN [threw |-> FALSE, value |-> <<>>]
    ELSE LET first == highlightSegment(Head(segs), processedTerm)
             rest  == highlightAll(Tail(segs), processedTerm)
         IN  IF first.threw \/ rest.threw
             THEN [threw |-> TRUE, value |-> <<>>]
             ELSE [threw |-> FALSE, value |-> first.value \o rest.value]

\* applyHighlightToSegments testing the term without trimming it
applyHighlightUntrimmedGuard(segs, searchTermArg) ==
    IF searchTermArg = <<>>
    THEN [threw |-> FALSE, value |-> segs]
    ELSE highlightAll(segs, toLowerCase(trim(searchTermArg)))

applyHighlightToSegments(segs, searchTermArg) ==
    IF trim(searchTermArg) = <<>>
    THEN [threw |-> FALSE, value |-> segs]
    ELSE highlightAll(segs, toLowerCase(trim(searchTermArg)))

getFormattedTextSegments(s, searchTermArg) ==
    applyHighlightToSegments(splitByMarkdown(s), searchTermArg)

----------------------------------------------------------------------------
(* SearchResultsDisplay: what the results panel renders for a paragraph.   *)
(* An element is written as a segment: its text, the tag that styles it    *)
(* and whether it stands inside a mark element.                            *)

\* text.split(markdownRegex): the pieces between the matches alternate with
\* the matched texts
RECURSIVE markdownSplitFrom(_, _)
markdownSplitFrom(s, start) ==
    LET at == markdownExec(s, start)
    IN  IF at = 0
        THEN <<SubSeq(s, start, Len(s))>>
        ELSE <<SubSeq(s, start, at - 1), SubSeq(s, at, at + markdownMatchLen(s, at) - 1)>>
             \o markdownSplitFrom(s, at + markdownMatchLen(s, at))

\* the element of one part in processMarkdown: none for an empty part
markdownElement(part) ==
    IF part = <<>> THEN <<>>
    ELSE IF startsWith(part, <<"*", "*">>) /\ endsWith(part, <<"*", "*">>)
    THEN <<Segment(sliceBoth(part, 2, 2), TRUE, FALSE, FALSE, FALSE, FALSE)>>
    ELSE IF /\ startsWith(part, <<"*">>) /\ endsWith(part, <<"*">>)
            /\ ~startsWith(part, <<"*", "*">>)
    THEN <<Segment(sliceBoth(part, 1, 1), FALSE, TRUE, FALSE, FALSE, FALSE)>>
    ELSE IF startsWith(part, <<Backtick>>) /\ endsWith(part, <<Backtick>>)
    THEN <<Segment(sliceBoth(part, 1, 1), FALSE, FALSE, TRUE, FALSE, FALSE)>>
    ELSE IF startsWith(part, <<"~", "~">>) /\ endsWith(part, <<"~", "~">>)
    THEN <<Segment(sliceBoth(part, 2, 2), FALSE, FALSE, FALSE, TRUE, FALSE)>>
    ELSE <<PlainSegment(part)>>

RECURSIVE markdownElements(_)
markdownElements(parts) ==
    IF parts = <<>> THEN <<>>
    ELSE markdownElement(Head(parts)) \o markdownElements(Tail(parts))

processMarkdown(s) ==
    IF s = <<>> THEN <<>> ELSE markdownElements(markdownSplitFrom(s, 1))

\* the first position from i where the atoms match, 0 if none
RECURSIVE regexExec(_, _, _)
regexExec(atoms, s, i) ==
    IF i + Len(atoms) - 1 > Len(s) THEN 0
    ELSE IF regexMatchAt(atoms, s, i, TRUE) THEN i
    ELSE regexExec(atoms, s, i + 1)

\* regex.test(part) for a regex with the "g" flag: the search starts at
\* lastIndex, which moves behind the match or back to 0
regexTest(atoms, part, lastIndex) ==
    LET at == regexExec(atoms, part, lastIndex + 1)
    IN  [found     |-> at # 0,
         lastIndex |-> IF at # 0 THEN at - 1 + Len(atoms) ELSE 0]

\* parts.map: the elements of the parts from the k-th on
RECURSIVE renderParts(_, _, _, _)
renderParts(atoms, parts, k, lastIndex) ==
    IF k > Len(parts) THEN <<>>
    ELSE LET tested        == regexTest(atoms, parts[k], lastIndex)
             processedPart == processMarkdown(parts[k])
         IN  [j \in 1..Len(processedPart) |->
                 [processedPart[j] EXCEPT !.isHighlighted = tested.found]]
             \o renderParts(atoms, parts, k + 1, tested.lastIndex)

\* a blank term: the text is returned as it is
processTextWithHighlight(s, termArg) ==
    IF trim(termArg) = <<>>
    THEN IF s = <<>> THEN <<>> ELSE <<PlainSegment(s)>>
    ELSE LET regex == RegExp(<<"(">> \o escapeRegExp(termArg) \o <<")">>)
         IN  renderParts(regex.atoms, splitCapture(regex.atoms, s), 1, 0)

----------------------------------------------------------------------------
(* splitTextIntoParagraphs: the segmentation engine *)

\* text.replace(/\r\n/g, '\n').replace(/\r/g, '\n')
\* a line feed that follows a carriage return goes with it; every carriage
\* return then becomes a line feed
normalizeLineEndings(s) ==
    LET kept == SelectSeq([i \in 1..Len(s) |-> i],
                          LAMBDA i : ~(s[i] = "\n" /\ i > 1 /\ s[i - 1] = "\r"))
    IN  [k \in 1..Len(kept) |-> IF s[kept[k]] = "\r" THEN "\n" ELSE s[kept[k]]]

AllIn(s, from, to, chars) == \A i \in from..to : s[i] \in chars

\* the five patterns a meaningful line must not match, each anchored at both ends
IsHeadingMarker(t) ==      \* ^#+\s*$
    \E k \in 1..Len(t) : AllIn(t, 1, k, {"#"}) /\ AllIn(t, k + 1, Len(t), WhiteSpace)

IsBulletMarker(t) ==       \* ^[-*+]\s*$
    Len(t) >= 1 /\ t[1] \in {"-", "*", "+"} /\ AllIn(t, 2, Len(t), WhiteSpace)

IsBlank(t) ==              \* ^\s*$
    AllIn(t, 1, Len(t), WhiteSpace)

IsFenceMarker(t) ==        \* three backquotes, then \s*$
    Len(t) >= 3 /\ AllIn(t, 1, 3, {Backtick}) /\ AllIn(t, 4, Len(t), WhiteSpace)

IsRuleMarker(t) ==         \* ^---+\s*$
    \E k \in 3..Len(t) : AllIn(t, 1, k, {"-"}) /\ AllIn(t, k + 1, Len(t), WhiteSpace)

\* keepSingleLine without the filter: every piece is kept
keepSingleLineAny(p) == TRUE

\* the filter of candidate (a), 'Single newline'
keepSingleLine(p) == Len(trim(p)) > 0 /\ Len(trim(p)) >= 3

\* the filter of candidates (b) and (d)
keepNonBlank(p) == Len(trim(p)) > 0

\* the filter of candidate (c), 'Meaningful lines'
keepMeaningful(p) ==
    LET trimmed == trim(p)
    IN  /\ Len(trimmed) > 10
        /\ ~IsHeadingMarker(trimmed)
        /\ ~IsBulletMarker(trimmed)
        /\ ~IsBlank(trimmed)
        /\ ~IsFenceMarker(trimmed)
        /\ ~IsRuleMarker(trimmed)

\* the end of the match of /\n\s*\n/ at position i (s[i] is a line feed): the
\* last line feed of the whitespace run that follows, 0 if there is none
RECURSIVE lastLineFeedOfRun(_, _, _)
lastLineFeedOfRun(s, j, last) ==
    IF j > Len(s) \/ s[j] \notin WhiteSpace THEN last
    ELSE lastLineFeedOfRun(s, j + 1, IF s[j] = "\n" THEN j ELSE last)

\* TRUE when the whitespace that ends right before position j holds a line feed
RECURSIVE lineFeedBefore(_, _)
lineFeedBefore(s, j) ==
    IF j < 1 \/ s[j] \notin WhiteSpace THEN FALSE
    ELSE s[j] = "\n" \/ lineFeedBefore(s, j - 1)

\* the positions where a match of /\n\s*\n/ starts: the first line feed of
\* a run of whitespace that holds a second one (the match runs to the last)
blockPoints(s) ==
    SelectSeq([i \in 1..Len(s) |-> i],
              LAMBDA i : /\ s[i] = "\n"
                         /\ ~lineFeedBefore(s, i - 1)
                         /\ lastLineFeedOfRun(s, i + 1, 0) # 0)

\* normalizedText.split(/\n\s*\n/)
splitBlocks(s) ==
    LET at == blockPoints(s)
    IN  [k \in 1..(Len(at) + 1) |->
            SubSeq(s, IF k = 1 THEN 1 ELSE lastLineFeedOfRun(s, at[k - 1] + 1, 0) + 1,
                      IF k = Len(at) + 1 THEN Len(s) ELSE at[k] - 1)]

\* the four candidates, in the order of the methods array
splitMethods(normalizedText) ==
    << SelectSeq(split(normalizedText, <<"\n">>), keepSingleLine),
       SelectSeq(split(normalizedText, <<"\n", "\n">>), keepNonBlank),
       SelectSeq(split(normalizedText, <<"\n">>), keepMeaningful),
       SelectSeq(splitBlocks(normalizedText), keepNonBlank) >>

MethodNames ==
    << "Single newline (\\n) - Standard",
       "Double newline (\\n\\n) - Spaced paragraphs",
       "Meaningful lines (length > 10)",
       "Paragraph blocks (empty line separated)" >>

\* the threshold of the first safety check
ManyParagraphs == 500

\* the text length of the second safety check
LongText == 1000

\* initialMethod with a second rule that does not ask for more than three
\* paragraphs
initialMethodNoMinimum(singleCount, doubleCount, meaningfulCount, blocksCount) ==
    IF meaningfulCount > 5 /\ 10 * meaningfulCount < 8 * singleCount
    THEN 3
    ELSE IF singleCount > doubleCount
    THEN 1
    ELSE IF doubleCount > 3
    THEN 2
    ELSE IF blocksCount > doubleCount
    THEN 4
    ELSE 1

\* initialMethod with a first rule that takes five meaningful lines
initialMethodFiveMeaningful(singleCount, doubleCount, meaningfulCount, blocksCount) ==
    IF meaningfulCount >= 5 /\ 10 * meaningfulCount < 8 * singleCount
    THEN 3
    ELSE IF singleCount > doubleCount /\ singleCount > 3
    THEN 1
    ELSE IF doubleCount > 3
    THEN 2
    ELSE IF blocksCount > doubleCount
    THEN 4
    ELSE 1

\* the rule chain: the index (1..4) of the candidate chosen first; the counts
\* are those of (a), (b), (c), (d); c < a * 0.8 is 10 * c < 8 * a
initialMethod(singleCount, doubleCount, meaningfulCount, blocksCount) ==
    IF meaningfulCount > 5 /\ 10 * meaningfulCount < 8 * singleCount
    THEN 3
    ELSE IF singleCount > doubleCount /\ singleCount > 3
    THEN 1
    ELSE IF doubleCount > 3
    THEN 2
    ELSE IF blocksCount > doubleCount
    THEN 4
    ELSE 1

\* manyParagraphsOverride applied from ManyParagraphs paragraphs on
manyParagraphsOverrideFrom500(chosen, counts) ==
    IF counts[chosen] >= ManyParagraphs
    THEN IF counts[2] > 0 /\ 5 * counts[2] < counts[chosen]
         THEN 2
         ELSE IF counts[3] > 0 /\ 3 * counts[3] < counts[chosen]
         THEN 3
         ELSE chosen
    ELSE chosen

\* the first safety check; counts[k] is the count of candidate k
manyParagraphsOverride(chosen, counts) ==
    IF counts[chosen] > ManyParagraphs
    THEN IF counts[2] > 0 /\ 5 * counts[2] < counts[chosen]
         THEN 2
         ELSE IF counts[3] > 0 /\ 3 * counts[3] < counts[chosen]
         THEN 3
         ELSE chosen
    ELSE chosen

\* fewParagraphsOverride without the check: the choice stays as it is
fewParagraphsOverrideNever(chosen, counts, normalizedLength) == chosen

\* fewParagraphsOverride taken when (a) has just twice the paragraphs too
fewParagraphsOverrideAtLeast(chosen, counts, normalizedLength) ==
    IF /\ counts[chosen] < 5
       /\ normalizedLength > LongText
       /\ counts[1] >= counts[chosen] * 2
    THEN 1
    ELSE chosen

\* the second safety check
fewParagraphsOverride(chosen, counts, normalizedLength) ==
    IF /\ counts[chosen] < 5
       /\ normalizedLength > LongText
       /\ counts[1] > counts[chosen] * 2
    THEN 1
    ELSE chosen

\* chooseMethod with the two safety checks in the other order
chooseMethodFewFirst(counts, normalizedLength) ==
    manyParagraphsOverride(
        fewParagraphsOverride(
            initialMethod(counts[1], counts[2], counts[3], counts[4]),
            counts, normalizedLength),
        counts)

chooseMethod(counts, normalizedLength) ==
    fewParagraphsOverride(
        manyParagraphsOverride(
            initialMethod(counts[1], counts[2], counts[3], counts[4]), counts),
        counts, normalizedLength)

\* chosenMethod after the rule chain, after the first and after the second
\* safety check
chosenMethodSteps(counts, normalizedLength) ==
    LET first == initialMethod(counts[1], counts[2], counts[3], counts[4])
        many  == manyParagraphsOverride(first, counts)
    IN  <<first, many, fewParagraphsOverride(many, counts, normalizedLength)>>

\* the counts of the four candidates
methodCounts(methods) == [k \in 1..4 |-> Len(methods[k])]

\* the value returned once the text is normalized and the candidates are
\* computed
splitResultOf(s, normalizedText, methods) ==
    [paragraphs |-> methods[chooseMethod(methodCounts(methods), Len(normalizedText))],
     splitInfo  |-> [originalLength   |-> Len(s),
                     normalizedLength |-> Len(normalizedText),
                     doubleNewlineCount |->
                         Len(splitPoints(normalizedText, <<"\n", "\n">>)),
                     singleNewlineCount |-> Len(splitPoints(normalizedText, <<"\n">>)),
                     chosenMethod     |-> MethodNames[chooseMethod(methodCounts(methods),
                                                                   Len(normalizedText))],
                     paragraphCounts  |-> methodCounts(methods)]]

\* normalizedText and methods are computed once, as the constants they are
\* in the code
splitTextIntoParagraphs(s) ==
    CHOOSE r \in { splitResultOf(s, normalizedText, methods) :
                      <<normalizedText, methods>> \in
                          { <<n, splitMethods(n)>> : n \in {normalizeLineEndings(s)} } } : TRUE

----------------------------------------------------------------------------
(* processFoundParagraph: the restructuring of a matched paragraph *)

BaseTag  == <<"[", "B", "A", "S", "E", "]", " ">>
MatchTag == <<"[", "M", "A", "T", "C", "H", "]", " ">>
SkipTag  == <<"[", "S", "K", "I", "P", "]", " ">>

\* keepSentence without the test: every later piece is kept
keepSentenceAlways(sentence, processedSearchTerm) == TRUE

\* keepSentence with the test negated: the pieces without the term are kept
keepSentenceWithoutTerm(sentence, processedSearchTerm) ==
    ~includes(toLowerCase(sentence), processedSearchTerm)

\* containsTerm of the for loop
keepSentence(sentence, processedSearchTerm) ==
    includes(toLowerCase(sentence), processedSearchTerm)

RECURSIVE restructureFrom(_, _, _, _, _)

\* restructureFrom without the annotation of the pieces it drops
restructureFromNoSkip(sentences, i, processedSearchTerm, parts, selected) ==
    IF i > Len(sentences) THEN [parts |-> parts, selected |-> selected]
    ELSE IF keepSentence(sentences[i], processedSearchTerm)
         THEN restructureFrom(sentences, i + 1, processedSearchTerm,
                              Append(parts, sentences[i]),
                              Append(selected, MatchTag \o sentences[i]))
         ELSE restructureFrom(sentences, i + 1, processedSearchTerm,
                              parts, selected)

\* the for loop over sentences[1..]: the parts pushed and the annotations
restructureFrom(sentences, i, processedSearchTerm, parts, selected) ==
    IF i > Len(sentences) THEN [parts |-> parts, selected |-> selected]
    ELSE IF keepSentence(sentences[i], processedSearchTerm)
         THEN restructureFrom(sentences, i + 1, processedSearchTerm,
                              Append(parts, sentences[i]),
                              Append(selected, MatchTag \o sentences[i]))
         ELSE restructureFrom(sentences, i + 1, processedSearchTerm,
                              parts,
                              Append(selected, SkipTag \o sentences[i]))

processFoundParagraph(p, searchTermArg, fileName, paragraphIndex) ==
    LET processedSearchTerm == toLowerCase(trim(searchTermArg))
        pieces    == split(p, <<"|">>)
        debugData == [fileName          |-> fileName,
                      paragraphIndex    |-> paragraphIndex,
                      originalParagraph |-> p,
                      searchTerm        |-> processedSearchTerm,
                      containsPipe      |-> includes(p, <<"|">>),
                      splitCount        |-> Len(pieces),
                      sentences         |-> <<>>,
                      selectedSentences |-> <<>>,
                      finalParagraph    |-> <<>>]
    IN  IF includes(p, <<"|">>) /\ Len(pieces) >= 3
        THEN LET sentences == [k \in 1..Len(pieces) |-> trim(pieces[k])]
                 loop      == restructureFrom(sentences, 2, processedSearchTerm,
                                              <<sentences[1]>>,
                                              <<BaseTag \o sentences[1]>>)
                 result    == join(loop.parts, <<" ">>)
             IN  [processed |-> result,
                  debug     |-> [debugData EXCEPT !.sentences = sentences,
                                                  !.selectedSentences = loop.selected,
                                                  !.finalParagraph = result]]
        ELSE [processed |-> p,
              debug     |-> [debugData EXCEPT !.finalParagraph = p]]

----------------------------------------------------------------------------
(* searchInFiles.  The value returned is [threw, results, debugInfo]:     *)
(* threw is TRUE when the call ends with an exception.                     *)

\* files.find(f => f.id === fileId): the index of the first such file, 0 if none
\* findFile falling back on the first document when the id is unknown
findFileOrFirst(fs, fileId) ==
    IF \E k \in 1..Len(fs) : fs[k].id = fileId
    THEN CHOOSE k \in 1..Len(fs) :
            fs[k].id = fileId /\ \A j \in 1..(k - 1) : fs[j].id # fileId
    ELSE IF Len(fs) > 0 THEN 1 ELSE 0

findFile(fs, fileId) ==
    IF \E k \in 1..Len(fs) : fs[k].id = fileId
    THEN CHOOSE k \in 1..Len(fs) :
            fs[k].id = fileId /\ \A j \in 1..(k - 1) : fs[j].id # fileId
    ELSE 0

\* blankSearch without the test of the term: only an empty selection stops the search
blankSearchSelectionOnly(searchTermArg, selectedIds) == Len(selectedIds) = 0

\* the guard of searchInFiles
blankSearch(searchTermArg, selectedIds) ==
    trim(searchTermArg) = <<>> \/ Len(selectedIds) = 0

\* new RegExp(processedTerm, 'g') on the lower-cased paragraph
occurrencesIn(lowerParagraph, processedTerm) ==
    LET regex == RegExp(processedTerm)
    IN  [threw |-> ~regex.ok,
         count |-> IF regex.ok THEN matchCount(regex.atoms, lowerParagraph) ELSE 0]

\* allParagraphs.forEach: acc is [threw, found, count, debug]
RECURSIVE scanParagraphs(_, _, _, _, _)
scanParagraphs(allParagraphs, index, file, searchTermArg, acc) ==
    IF index >= Len(allParagraphs) \/ acc.threw THEN acc
    ELSE LET p              == allParagraphs[index + 1]
             lowerParagraph == toLowerCase(p)
             processedTerm  == toLowerCase(trim(searchTermArg))
         IN  IF includes(lowerParagraph, processedTerm)
             THEN LET occ == occurrencesIn(lowerParagraph, processedTerm)
                      pfp == processFoundParagraph(p, searchTermArg, file.name, index)
                  IN  scanParagraphs(allParagraphs, index + 1, file, searchTermArg,
                        [threw |-> occ.threw,
                         found |-> Append(acc.found, pfp.processed),
                         count |-> acc.count + occ.count,
                         debug |-> Append(acc.debug,
                                     [fileName           |-> file.name,
                                      paragraphIndex     |-> index,
                                      originalParagraph  |-> p,
                                      processedParagraph |-> pfp.processed,
                                      debugDetails       |-> pfp.debug])])
             ELSE scanParagraphs(allParagraphs, index + 1, file, searchTermArg, acc)

\* keepResult without the test: a document without a match gets a result too
keepResultAlways(foundParagraphs) == TRUE

\* the test before results.push
keepResult(foundParagraphs) == Len(foundParagraphs) > 0

\* the for loop over selectedFileIds
RECURSIVE searchFrom(_, _, _, _, _)
searchFrom(fs, selectedIds, i, searchTermArg, acc) ==
    IF i > Len(selectedIds) \/ acc.threw THEN acc
    ELSE IF findFile(fs, selectedIds[i]) = 0
    THEN searchFrom(fs, selectedIds, i + 1, searchTermArg, acc)
    ELSE LET file          == fs[findFile(fs, selectedIds[i])]
             allParagraphs == splitTextIntoParagraphs(file.content).paragraphs
             scan          == scanParagraphs(allParagraphs, 0, file, searchTermArg,
                                [threw |-> FALSE, found |-> <<>>, count |-> 0,
                                 debug |-> <<>>])
         IN  IF scan.threw
             THEN [threw |-> TRUE, results |-> <<>>, debugInfo |-> <<>>]
             ELSE IF keepResult(scan.found)
             THEN searchFrom(fs, selectedIds, i + 1, searchTermArg,
                    [threw     |-> FALSE,
                     results   |-> Append(acc.results,
                                     [fileName        |-> file.name,
                                      foundParagraphs |-> scan.found,
                                      totalParagraphs |-> Len(allParagraphs),
                                      occurrenceCount |-> scan.count]),
                     debugInfo |-> acc.debugInfo \o scan.debug])
             ELSE searchFrom(fs, selectedIds, i + 1, searchTermArg, acc)

searchInFiles(fs, selectedIds, searchTermArg) ==
    IF blankSearch(searchTermArg, selectedIds)
    THEN [threw |-> FALSE, results |-> <<>>, debugInfo |-> <<>>]
    ELSE searchFrom(fs, selectedIds, 1, searchTermArg,
                    [threw |-> FALSE, results |-> <<>>, debugInfo |-> <<>>])

\* a call whose loop takes the ids off the front of the caller's array
searchInFilesCallShifting(fs, selectedIds, searchTermArg) ==
    [value           |-> searchInFiles(fs, selectedIds, searchTermArg),
     files           |-> fs,
     selectedFileIds |-> <<>>]

\* a call of searchInFiles with what it leaves in the two arrays it was
\* passed: it reads them with for...of and find, and assigns to neither
searchInFilesCall(fs, selectedIds, searchTermArg) ==
    [value           |-> searchInFiles(fs, selectedIds, searchTermArg),
     files           |-> fs,
     selectedFileIds |-> selectedIds]

----------------------------------------------------------------------------
(* exportToDocx: the document handed to the docx writer *)

DigitChars == <<"0", "1", "2", "3", "4", "5", "6", "7", "8", "9">>

\* Number.prototype.toString of a natural number
RECURSIVE numberToString(_)
numberToString(n) ==
    IF n < 10 THEN <<DigitChars[n + 1]>>
    ELSE numberToString(n \div 10) \o <<DigitChars[(n % 10) + 1]>>

\* String.prototype.padStart(targetLength, padChar)
RECURSIVE padStart(_, _, _)
padStart(s, targetLength, padChar) ==
    IF Len(s) >= targetLength THEN s
    ELSE padStart(<<padChar>> \o s, targetLength, padChar)

\* numberPrefix padded to three digits instead of two
numberPrefixThree(counter) ==
    padStart(numberToString(counter), 3, "0") \o <<".", " ">>

\* paragraphCounter.toString().padStart(2, '0') + '. '
numberPrefix(counter) ==
    padStart(numberToString(counter), 2, "0") \o <<".", " ">>

\* new TextRun({...}) for one segment
segmentRun(segment) ==
    [text      |-> segment.text,
     bold      |-> segment.isBold,
     italics   |-> segment.isItalic,
     strike    |-> segment.isStrikethrough,
     highlight |-> segment.isHighlighted,
     courier   |-> segment.isCode]

prefixRun(counter) ==
    [text |-> numberPrefix(counter), bold |-> TRUE, italics |-> FALSE,
     strike |-> FALSE, highlight |-> FALSE, courier |-> FALSE]

\* the body of result.foundParagraphs.forEach, with the counter already
\* incremented: [threw, value], value being the paragraph pushed
exportEntry(p, searchTermArg, counter) ==
    LET formatted == getFormattedTextSegments(p, searchTermArg)
    IN  [threw |-> formatted.threw,
         value |-> [kind |-> "entry",
                    runs |-> <<prefixRun(counter)>>
                             \o [k \in 1..Len(formatted.value) |->
                                    segmentRun(formatted.value[k])]]]

\* result.foundParagraphs.forEach from paragraph i: acc is [threw, counter, children]
RECURSIVE exportParagraphs(_, _, _, _)
exportParagraphs(foundParagraphs, i, searchTermArg, acc) ==
    IF i > Len(foundParagraphs) \/ acc.threw THEN acc
    ELSE LET entry == exportEntry(foundParagraphs[i], searchTermArg, acc.counter + 1)
         IN  exportParagraphs(foundParagraphs, i + 1, searchTermArg,
                [threw    |-> entry.threw,
                 counter  |-> acc.counter + 1,
                 children |-> Append(acc.children, entry.value)])

\* results.forEach from result r
RECURSIVE exportResults(_, _, _, _)
exportResults(rs, r, searchTermArg, acc) ==
    IF r > Len(rs) \/ acc.threw THEN acc
    ELSE exportResults(rs, r + 1, searchTermArg,
            exportParagraphs(rs[r].foundParagraphs, 1, searchTermArg,
                [acc EXCEPT !.children =
                    acc.children
                    \o << [kind |-> "fileHeading", fileName |-> rs[r].fileName],
                          [kind |-> "fileSummary",
                           found |-> Len(rs[r].foundParagraphs),
                           occurrences |-> rs[r].occurrenceCount] >>]))

\* the children of the document: the title, the date line, the results and
\* the closing rule
exportChildren(rs, searchTermArg) ==
    LET body == exportResults(rs, 1, searchTermArg,
                    [threw    |-> FALSE,
                     counter  |-> 0,
                     children |-> << [kind |-> "title", term |-> searchTermArg],
                                     [kind |-> "generatedOn"] >>])
    IN  [body EXCEPT !.children = body.children \o << [kind |-> "rule"] >>]

----------------------------------------------------------------------------
(* The states in which a part of the model is not in use *)

ModuleIdle ==
    /\ isSearching = FALSE /\ isLoadingDataFiles = FALSE
    /\ showConfiguration = FALSE /\ localSelection = <<>>
    /\ searchPc = "idle" /\ pendingUploads = 0 /\ uploadCount = 0
    /\ producedBy = <<>>

SearchIdle ==
    /\ files = <<>> /\ selectedFileIds = <<>> /\ searchTerm = <<>>
    /\ results = <<>> /\ debugInfo = <<>> /\ outcome = "idle"
    /\ calls = <<>>
    /\ ModuleIdle

FmtIdle ==
    /\ text = <<>> /\ term = <<>> /\ segments = <<>> /\ highlighted = <<>>
    /\ fmtDone = "idle" /\ rendered = <<>> /\ renderDone = "idle"

ParaIdle ==
    /\ paragraph = <<>> /\ pTerm = <<>> /\ processed = <<>> /\ pDebug = <<>>
    /\ pDone = "idle"

ExportIdle ==
    /\ xResults = <<>> /\ xTerm = <<>> /\ xpc = "idle" /\ paragraphCounter = 0
    /\ children = <<>> /\ xError = FALSE
    /\ xDebugInfo = <<>> /\ isExporting = FALSE /\ toast = "none"
    /\ savedAs = <<>>

SegIdle ==
    /\ docText = <<>> /\ splitResult = <<>> /\ delimiter = <<>> /\ joined = <<>>
    /\ splitAgain = <<>> /\ segDone = "idle" /\ chosenSteps = <<>>

ChatIdle ==
    /\ conversationStorage = <<>> /\ pending = <<>> /\ lastRequest = <<>>
    /\ requestCount = 0 /\ chatResult = <<>>
    /\ receivedIds = <<>> /\ staleIds = <<>>

----------------------------------------------------------------------------
(* SpecFormat: getFormattedTextSegments applied to every text and term *)

\* the concatenations of at most n tokens
RECURSIVE TokenTexts(_, _)
TokenTexts(tokens, n) ==
    IF n = 0 THEN { <<>> }
    ELSE LET shorter == TokenTexts(tokens, n - 1)
         IN  shorter \cup { t \o s : t \in tokens, s \in shorter }

FmtTexts == TokenTexts(FmtTokens, MaxTokens)

InitFormat ==
    /\ text \in FmtTexts
    /\ term \in FmtTerms
    /\ segments = <<>>
    /\ highlighted = <<>>
    /\ fmtDone = "input"
    /\ rendered = <<>>
    /\ renderDone = "idle"
    /\ SearchIdle /\ ParaIdle /\ ExportIdle /\ SegIdle /\ ChatIdle

\* one call of getFormattedTextSegments(text, term)
Format ==
    /\ fmtDone = "input"
    /\ LET r == applyHighlightToSegments(splitByMarkdown(text), term)
       IN  /\ segments' = splitByMarkdown(text)
           /\ highlighted' = r.value
           /\ fmtDone' = IF r.threw THEN "threw" ELSE "done"
    /\ UNCHANGED <<text, term, rendered, renderDone>>
    /\ UNCHANGED <<searchVars, paraVars, exportVars, segVars, chatVars>>

NextFormat == Format

SpecFormat == InitFormat /\ [][NextFormat]_vars

----------------------------------------------------------------------------
(* SpecRender: a paragraph and a term given to both pipelines, the one of  *)
(* the results panel and the one of the export                             *)

InitRender ==
    /\ text \in TokenTexts(FmtTokens, MaxRenderTokens)
    /\ term \in FmtTerms
    /\ segments = <<>>
    /\ highlighted = <<>>
    /\ fmtDone = "input"
    /\ rendered = <<>>
    /\ renderDone = "input"
    /\ SearchIdle /\ ParaIdle /\ ExportIdle /\ SegIdle /\ ChatIdle

\* the panel renders processTextWithHighlight(text, term)
Render ==
    /\ renderDone = "input"
    /\ rendered' = processTextWithHighlight(text, term)
    /\ renderDone' = "done"
    /\ UNCHANGED <<text, term, segments, highlighted, fmtDone>>
    /\ UNCHANGED <<searchVars, paraVars, exportVars, segVars, chatVars>>

NextRender == Format \/ Render

SpecRender == InitRender /\ [][NextRender]_vars

----------------------------------------------------------------------------
(* SpecParagraph: processFoundParagraph applied to every matched paragraph *)

\* the strings of at most n characters
RECURSIVE Strings(_, _)
Strings(chars, n) ==
    IF n = 0 THEN { <<>> }
    ELSE LET shorter == Strings(chars, n - 1)
         IN  shorter \cup { <<c>> \o t : c \in chars, t \in shorter }

\* searchInFiles calls processFoundParagraph on the paragraphs that contain
\* the non-blank term
InitParagraph ==
    /\ \/ /\ paragraph \in Strings(ParaChars, MaxParaLen)
          /\ pTerm \in ParaTerms
       \/ /\ paragraph = ExampleParagraph
          /\ pTerm = ExampleTerm
    /\ trim(pTerm) # <<>>
    /\ includes(toLowerCase(paragraph), toLowerCase(trim(pTerm)))
    /\ processed = <<>>
    /\ pDebug = <<>>
    /\ pDone = "input"
    /\ SearchIdle /\ FmtIdle /\ ExportIdle /\ SegIdle /\ ChatIdle

\* one call of processFoundParagraph(paragraph, pTerm, fileName, paragraphIndex)
Restructure ==
    /\ pDone = "input"
    /\ LET r == processFoundParagraph(paragraph, pTerm, "f", 0)
       IN  /\ processed' = r.processed
           /\ pDebug' = r.debug
    /\ pDone' = "done"
    /\ UNCHANGED <<paragraph, pTerm, searchVars, fmtVars, exportVars, segVars, chatVars>>

NextParagraph == Restructure

SpecParagraph == InitParagraph /\ [][NextParagraph]_vars

----------------------------------------------------------------------------
(* Spec: searchInFiles applied to two documents, a selection and a term *)

\* the documents of at most n lines joined by sep
RECURSIVE JoinedLines(_, _)
JoinedLines(sep, n) ==
    IF n = 0 THEN { <<>> }
    ELSE LET shorter == JoinedLines(sep, n - 1)
         IN  shorter \cup SearchLines
             \cup { l \o sep \o t : l \in SearchLines, t \in shorter \ { <<>> } }

Contents == UNION { JoinedLines(sep, MaxParas) : sep \in LineSeparators }

\* the second document: one with the letter a and one without
OtherContents == { <<"a", "a", "a">>, <<"b", "b", "b">> }

\* the selections: sequences of distinct ids
Selections ==
    { <<>> } \cup { <<x>> : x \in SelectableIds }
    \cup { <<pair[1], pair[2]>> :
             pair \in { q \in SelectableIds \X SelectableIds : q[1] # q[2] } }

Init ==
    /\ \E c1 \in Contents, c2 \in OtherContents :
          files = << [id |-> "f1", name |-> "A.md", content |-> c1],
                     [id |-> "f2", name |-> "B.md", content |-> c2] >>
    /\ selectedFileIds \in Selections
    /\ searchTerm \in SearchTerms
    /\ results = <<>>
    /\ debugInfo = <<>>
    /\ outcome = "input"
    /\ calls = <<>>
    /\ ModuleIdle
    /\ FmtIdle /\ ParaIdle /\ ExportIdle /\ SegIdle /\ ChatIdle

\* one call of searchInFiles(files, selectedFileIds, searchTerm); the two
\* arrays are passed by reference
Search ==
    /\ outcome = "input"
    /\ LET call == searchInFilesCall(files, selectedFileIds, searchTerm)
           r    == call.value
       IN  /\ results' = r.results
           /\ debugInfo' = r.debugInfo
           /\ outcome' = IF r.threw THEN "threw" ELSE "returned"
           /\ files' = call.files
           /\ selectedFileIds' = call.selectedFileIds
           /\ calls' = Append(calls, [files           |-> files,
                                     selectedFileIds |-> selectedFileIds,
                                     searchTerm      |-> searchTerm,
                                     value           |-> r])
    /\ UNCHANGED <<searchTerm, moduleVars, fmtVars, paraVars, exportVars, segVars, chatVars>>

Next == Search

Spec == Init /\ [][Next]_vars

----------------------------------------------------------------------------
(* SpecCalls: up to MaxCalls calls of searchInFiles by one caller, who     *)
(* passes the same two arrays every time and a term of its choice          *)

CallContents == { <<"a", "\n", "b">>, <<"A", "(", "a">> }

CallSelections == { <<"f1">>, <<"f2", "f1">>, <<"gone", "f2">> }

CallTerms == { <<"a">>, <<"b">>, <<"(">> }

InitCalls ==
    /\ \E c1 \in CallContents :
          files = << [id |-> "f1", name |-> "A.md", content |-> c1],
                     [id |-> "f2", name |-> "B.md", content |-> <<"b", " ", "a">>] >>
    /\ selectedFileIds \in CallSelections
    /\ searchTerm \in CallTerms
    /\ results = <<>>
    /\ debugInfo = <<>>
    /\ outcome = "input"
    /\ calls = <<>>
    /\ ModuleIdle
    /\ FmtIdle /\ ParaIdle /\ ExportIdle /\ SegIdle /\ ChatIdle

\* the caller sets the term of its next call; what the last call returned
\* stays with the caller
NextTerm ==
    /\ outcome \in {"returned", "threw"}
    /\ Len(calls) < MaxCalls
    /\ searchTerm' \in CallTerms
    /\ outcome' = "input"
    /\ UNCHANGED <<files, selectedFileIds, results, debugInfo, calls, moduleVars>>
    /\ UNCHANGED <<fmtVars, paraVars, exportVars, segVars, chatVars>>

NextCalls == Search \/ NextTerm

SpecCalls == InitCalls /\ [][NextCalls]_vars

----------------------------------------------------------------------------
(* SpecExport: exportToDocx applied to result sets of up to MaxResults     *)
(* results.  The function awaits the two imports, builds the document in   *)
(* one synchronous pass, awaits Packer.toBlob and saves; a rejected await  *)
(* is caught, logged and rethrown.  It is called by handleExportDocx of    *)
(* the lexical module, with the results on display and the search box.     *)

ExportResult(name, n, t) ==
    [fileName        |-> name,
     foundParagraphs |-> [i \in 1..n |-> t],
     totalParagraphs |-> n,
     occurrenceCount |-> n]

ExportNames == <<"A.md", "B.md", "C.md", "D.md">>

RECURSIVE ResultSets(_)
ResultSets(n) ==
    IF n = 0 THEN { <<>> }
    ELSE LET fewer == ResultSets(n - 1)
         IN  fewer \cup
             { Append(rs, ExportResult(ExportNames[Len(rs) + 1], c, t)) :
                  rs \in { x \in fewer : Len(x) = n - 1 },
                  c \in FoundCounts, t \in ExportTexts }

\* the debugInfo on display with the results: one entry for each result
DisplayedDebugInfo(rs) ==
    [i \in 1..Len(rs) |-> [fileName |-> rs[i].fileName, paragraphIndex |-> 0]]

\* the search box is free text: its content when the export button is pressed
ExportTerms == { <<"a">>, <<"a", " ", "B", ".", "1">> }

\* new Date().toISOString().slice(0, 10)
ExportDate == <<"2", "0", "2", "5", "-", "0", "1", "-", "3", "1">>

AlphaNumerics ==
    { "a", "b", "c", "d", "e", "f", "g", "h", "i", "j", "k", "l", "m",
      "n", "o", "p", "q", "r", "s", "t", "u", "v", "w", "x", "y", "z",
      "A", "B", "C", "D", "E", "F", "G", "H", "I", "J", "K", "L", "M",
      "N", "O", "P", "Q", "R", "S", "T", "U", "V", "W", "X", "Y", "Z",
      "0", "1", "2", "3", "4", "5", "6", "7", "8", "9" }

\* the term with its characters outside [a-zA-Z0-9] taken out
sanitizeTermStripped(s) == SelectSeq(s, LAMBDA c : c \in AlphaNumerics)

\* searchTerm.replace(/[^a-zA-Z0-9]/g, '_')
sanitizeTerm(s) == [i \in 1..Len(s) |-> IF s[i] \in AlphaNumerics THEN s[i] ELSE "_"]

FileNamePrefix ==
    <<"s", "e", "a", "r", "c", "h", "_", "r", "e", "s", "u", "l", "t", "s", "_">>

FileNameExtension == <<".", "d", "o", "c", "x">>

\* `search_results_${...}_${...}.docx`
exportFileName(searchTermArg, date) ==
    FileNamePrefix \o sanitizeTerm(searchTermArg) \o <<"_">> \o date \o FileNameExtension

\* the catch block of handleExportDocx, applied to the state of the component
handleExportCatchClearing(ui) ==
    [ui EXCEPT !.toast = "Erro na exportação", !.searchResults = <<>>, !.debugInfo = <<>>]

handleExportCatch(ui) == [ui EXCEPT !.toast = "Erro na exportação"]

InitExport ==
    /\ xResults \in ResultSets(MaxResults)
    /\ xTerm \in ExportTerms
    /\ xpc = "ready"
    /\ paragraphCounter = 0
    /\ children = <<>>
    /\ xError = FALSE
    /\ xDebugInfo = DisplayedDebugInfo(xResults)
    /\ isExporting = FALSE
    /\ toast = "none"
    /\ savedAs = <<>>
    /\ SearchIdle /\ FmtIdle /\ ParaIdle /\ SegIdle /\ ChatIdle

\* handleExportDocx up to the call of exportToDocx
HandleExportDocx ==
    /\ xpc = "ready"
    /\ IF Len(xResults) = 0
       THEN xpc' = "done" /\ UNCHANGED isExporting
       ELSE xpc' = "called" /\ isExporting' = TRUE
    /\ UNCHANGED <<xResults, xTerm, paragraphCounter, children, xError>>
    /\ UNCHANGED <<xDebugInfo, toast, savedAs>>
    /\ UNCHANGED <<searchVars, fmtVars, paraVars, segVars, chatVars>>

\* the two dynamic imports resolve
ExportImported ==
    /\ xpc = "called"
    /\ xpc' = "imported"
    /\ UNCHANGED <<xResults, xTerm, paragraphCounter, children, xError>>
    /\ UNCHANGED <<xDebugInfo, isExporting, toast, savedAs>>
    /\ UNCHANGED <<searchVars, fmtVars, paraVars, segVars, chatVars>>

\* the synchronous pass from "let paragraphCounter = 0" to "new Document"
ExportBuild ==
    /\ xpc = "imported"
    /\ LET built == exportChildren(xResults, xTerm)
       IN  /\ paragraphCounter' = built.counter
           /\ children' = built.children
           /\ xpc' = IF built.threw THEN "failed" ELSE "built"
           /\ xError' = built.threw
    /\ UNCHANGED <<xDebugInfo, isExporting, toast, savedAs>>
    /\ UNCHANGED <<xResults, xTerm, searchVars, fmtVars, paraVars, segVars, chatVars>>

\* Packer.toBlob resolves and saveAs is called
ExportSaved ==
    /\ xpc = "built"
    /\ xpc' = "saved"
    /\ savedAs' = exportFileName(xTerm, ExportDate)
    /\ UNCHANGED <<xResults, xTerm, paragraphCounter, children, xError>>
    /\ UNCHANGED <<xDebugInfo, isExporting, toast>>
    /\ UNCHANGED <<searchVars, fmtVars, paraVars, segVars, chatVars>>

\* an import or Packer.toBlob rejects: the catch block rethrows
ExportFailed ==
    /\ xpc \in {"called", "built"}
    /\ xpc' = "failed"
    /\ xError' = TRUE
    /\ UNCHANGED <<xResults, xTerm, paragraphCounter, children>>
    /\ UNCHANGED <<xDebugInfo, isExporting, toast, savedAs>>
    /\ UNCHANGED <<searchVars, fmtVars, paraVars, segVars, chatVars>>

\* handleExportDocx after exportToDocx resolved: the toast, then finally
HandleExportResolved ==
    /\ xpc = "saved"
    /\ xpc' = "done"
    /\ toast' = "Exportação concluída"
    /\ isExporting' = FALSE
    /\ UNCHANGED <<xResults, xTerm, paragraphCounter, children, xError>>
    /\ UNCHANGED <<xDebugInfo, savedAs>>
    /\ UNCHANGED <<searchVars, fmtVars, paraVars, segVars, chatVars>>

\* handleExportDocx after exportToDocx rejected: catch, then finally
HandleExportRejected ==
    /\ xpc = "failed"
    /\ xpc' = "done"
    /\ LET ui == handleExportCatch([searchResults |-> xResults,
                                    debugInfo     |-> xDebugInfo,
                                    toast         |-> toast])
       IN  /\ xResults' = ui.searchResults
           /\ xDebugInfo' = ui.debugInfo
           /\ toast' = ui.toast
    /\ isExporting' = FALSE
    /\ UNCHANGED <<xTerm, paragraphCounter, children, xError, savedAs>>
    /\ UNCHANGED <<searchVars, fmtVars, paraVars, segVars, chatVars>>

NextExport ==
    \/ HandleExportDocx \/ ExportImported \/ ExportBuild \/ ExportSaved
    \/ ExportFailed \/ HandleExportResolved \/ HandleExportRejected

SpecExport == InitExport /\ [][NextExport]_vars

----------------------------------------------------------------------------
(* SpecSegment: splitTextIntoParagraphs applied to a document body, and    *)
(* again to its paragraphs joined with the splitter of the chosen method;  *)
(* searchInFiles applied to the short bodies as the only document          *)

\* a line of w letters
Letters(w) == [i \in 1..w |-> "a"]

\* the document of the shape <<m, n, g>>
LineDoc(m, n, g) ==
    join([k \in 1..(m + n) |->
             IF k <= m THEN Letters(11)
             ELSE IF (k - m) % (g + 1) = 0 THEN <<>> ELSE Letters(3)],
         <<"\n">>)

\* the document of 1500 characters of the shape <<b, s, l>>
ExampleDoc(b, s, l) ==
    join([k \in 1..61 |->
             IF k = 1 THEN Letters(1500 - 60 - b - 3 * s - 11 * (59 - b - s))
             ELSE IF k <= 1 + b THEN <<" ">>
             ELSE IF k <= 1 + b + s THEN Letters(3)
             ELSE IF k = 2 + b + s + l THEN <<>>
             ELSE Letters(11)],
         <<"\n">>)

PieceSeparators == << <<"\n", "\n">>, <<"\n", " ", "\n">> >>

\* the document of the shape <<i, n, t>>
PieceDoc(i, n, t) ==
    join([k \in 1..(n + 1 + t) |->
             IF k <= n THEN Letters(1)
             ELSE IF k = n + 1 THEN Letters(11) ELSE Letters(3)],
         PieceSeparators[i])

ShortBodies == TokenTexts(BodyTokens, MaxBodyTokens)

Bodies ==
    ShortBodies
    \cup { LineDoc(shape[1], shape[2], shape[3]) : shape \in LineDocShapes }
    \cup { ExampleDoc(shape[1], shape[2], shape[3]) : shape \in ExampleDocShapes }
    \cup { PieceDoc(shape[1], shape[2], shape[3]) : shape \in PieceDocShapes }

\* the strings that undo the splitter of each of the four methods; the
\* splitter of the fourth is a pattern, matched by an empty line and by a
\* line of blanks
Delimiters ==
    << { <<"\n">> }, { <<"\n", "\n">> }, { <<"\n">> },
       { <<"\n", "\n">>, <<"\n", " ", "\n">> } >>

\* the index in the methods array of the method named in a SplitInfo
MethodIndex(name) == CHOOSE k \in 1..4 : MethodNames[k] = name

InitSegment ==
    /\ docText \in Bodies
    /\ splitResult = <<>>
    /\ delimiter = <<>>
    /\ joined = <<>>
    /\ splitAgain = <<>>
    /\ segDone = "input"
    /\ chosenSteps = <<>>
    /\ \/ /\ docText \in ShortBodies
          /\ files = << [id |-> "f1", name |-> "A.md", content |-> docText] >>
          /\ selectedFileIds = <<"f1">>
          /\ searchTerm = <<"a">>
          /\ results = <<>>
          /\ debugInfo = <<>>
          /\ outcome = "input"
          /\ calls = <<>>
          /\ ModuleIdle
       \/ /\ docText \notin ShortBodies
          /\ SearchIdle
    /\ FmtIdle /\ ParaIdle /\ ExportIdle /\ ChatIdle

\* one call of splitTextIntoParagraphs(docText)
SplitBody ==
    /\ segDone = "input"
    /\ splitResult' = splitTextIntoParagraphs(docText)
    /\ chosenSteps' = chosenMethodSteps(splitResult'.splitInfo.paragraphCounts,
                                        splitResult'.splitInfo.normalizedLength)
    /\ segDone' = "split"
    /\ UNCHANGED <<docText, delimiter, joined, splitAgain>>
    /\ UNCHANGED <<searchVars, fmtVars, paraVars, exportVars, chatVars>>

\* a second call, on the paragraphs of the first joined with a delimiter of
\* the method it chose
SplitJoined ==
    /\ segDone = "split"
    /\ delimiter' \in Delimiters[MethodIndex(splitResult.splitInfo.chosenMethod)]
    /\ joined' = join(splitResult.paragraphs, delimiter')
    /\ splitAgain' = splitTextIntoParagraphs(joined')
    /\ segDone' = "again"
    /\ UNCHANGED <<docText, splitResult, chosenSteps>>
    /\ UNCHANGED <<searchVars, fmtVars, paraVars, exportVars, chatVars>>

NextSegment == SplitBody \/ SplitJoined \/ Search

SpecSegment == InitSegment /\ [][NextSegment]_vars

----------------------------------------------------------------------------
(* SpecFiles: the files and the selection of LexicalModule under the       *)
(* actions of the file configuration tab: load and reload of the data      *)
(* files, upload, removal, toggle, select all and deselect all.  The tab   *)
(* keeps its own localSelection, set from selectedFileIds when it mounts.  *)

DataPrefix == <<"d", "a", "t", "a", "-">>

LOName == <<"L", "O", ".", "m", "d">>

\* the first names of potentialFiles
DataFileNames == << LOName, <<"D", "A", "C", ".", "m", "d">> >>

\* loadDataFile(filename)
loadDataFile(filename) ==
    [id |-> DataPrefix \o filename, name |-> filename, content |-> <<"a">>]

\* what loadAvailableDataFiles can resolve to: the files that answer, in
\* the order of potentialFiles
Discoveries ==
    { SelectSeq([k \in 1..Len(DataFileNames) |-> loadDataFile(DataFileNames[k])],
                LAMBDA f : f.name \in present) :
         present \in SUBSET { DataFileNames[k] : k \in 1..Len(DataFileNames) } }

\* createFileData of the n-th file uploaded; crypto.randomUUID() is new
\* every time
createFileData(n) ==
    [id      |-> <<"u", "u", "i", "d">> \o numberToString(n),
     name    |-> <<"n">> \o numberToString(n) \o <<".", "t", "x", "t">>,
     content |-> <<"a">>]

FileIds(fs) == [k \in 1..Len(fs) |-> fs[k].id]

\* the selection loadDataFiles sets: LO.md alone, or every data file
defaultSelection(dataFiles) ==
    IF \E k \in 1..Len(dataFiles) : dataFiles[k].name = LOName
    THEN <<(CHOOSE f \in { dataFiles[k] : k \in 1..Len(dataFiles) } : f.name = LOName).id>>
    ELSE FileIds(dataFiles)

\* newSelection of handleFileToggle
toggled(selection, fileId) ==
    IF \E k \in 1..Len(selection) : selection[k] = fileId
    THEN SelectSeq(selection, LAMBDA id : id # fileId)
    ELSE Append(selection, fileId)

\* the state after the first render: the effect has called loadDataFiles
InitFiles ==
    /\ files = <<>>
    /\ selectedFileIds = <<>>
    /\ searchTerm = <<>>
    /\ results = <<>>
    /\ debugInfo = <<>>
    /\ outcome = "idle"
    /\ calls = <<>>
    /\ isSearching = FALSE
    /\ isLoadingDataFiles = TRUE
    /\ showConfiguration = FALSE
    /\ localSelection = <<>>
    /\ searchPc = "idle"
    /\ pendingUploads = 0
    /\ uploadCount = 0
    /\ producedBy = <<>>
    /\ FmtIdle /\ ParaIdle /\ ExportIdle /\ SegIdle /\ ChatIdle

FilesUnchanged ==
    /\ UNCHANGED <<searchTerm, results, debugInfo, outcome, calls>>
    /\ UNCHANGED <<isSearching, searchPc, producedBy>>
    /\ UNCHANGED <<fmtVars, paraVars, exportVars, segVars, chatVars>>

\* the reload button of the tab: loadDataFiles up to its await
LoadStart ==
    /\ showConfiguration
    /\ ~isLoadingDataFiles
    /\ isLoadingDataFiles' = TRUE
    /\ UNCHANGED <<files, selectedFileIds, showConfiguration, localSelection>>
    /\ UNCHANGED <<pendingUploads, uploadCount>>
    /\ FilesUnchanged

\* loadAvailableDataFiles resolves: the rest of loadDataFiles
LoadDone ==
    /\ isLoadingDataFiles
    /\ \E dataFiles \in Discoveries :
          /\ files' = dataFiles
                \o SelectSeq(files, LAMBDA f : ~startsWith(f.id, DataPrefix))
          /\ selectedFileIds' = defaultSelection(dataFiles)
    /\ isLoadingDataFiles' = FALSE
    /\ UNCHANGED <<showConfiguration, localSelection, pendingUploads, uploadCount>>
    /\ FilesUnchanged

\* loadAvailableDataFiles rejects: catch and finally
LoadFailed ==
    /\ isLoadingDataFiles
    /\ isLoadingDataFiles' = FALSE
    /\ UNCHANGED <<files, selectedFileIds, showConfiguration, localSelection>>
    /\ UNCHANGED <<pendingUploads, uploadCount>>
    /\ FilesUnchanged

\* "Selecionar Livros": FileConfigurationTab mounts
OpenConfiguration ==
    /\ ~showConfiguration
    /\ showConfiguration' = TRUE
    /\ localSelection' = selectedFileIds
    /\ UNCHANGED <<files, selectedFileIds, isLoadingDataFiles>>
    /\ UNCHANGED <<pendingUploads, uploadCount>>
    /\ FilesUnchanged

\* onBack: the tab unmounts
CloseConfiguration ==
    /\ showConfiguration
    /\ showConfiguration' = FALSE
    /\ localSelection' = <<>>
    /\ UNCHANGED <<files, selectedFileIds, isLoadingDataFiles>>
    /\ UNCHANGED <<pendingUploads, uploadCount>>
    /\ FilesUnchanged

\* handleFileToggle of a file of the list, then handleFileConfiguration
HandleFileToggle ==
    /\ showConfiguration
    /\ \E k \in 1..Len(files) :
          /\ localSelection' = toggled(localSelection, files[k].id)
          /\ selectedFileIds' = localSelection'
    /\ UNCHANGED <<files, showConfiguration, isLoadingDataFiles>>
    /\ UNCHANGED <<pendingUploads, uploadCount>>
    /\ FilesUnchanged

\* handleSelectAll, then handleFileConfiguration
HandleSelectAll ==
    /\ showConfiguration
    /\ Len(localSelection) # Len(files)
    /\ localSelection' = FileIds(files)
    /\ selectedFileIds' = localSelection'
    /\ UNCHANGED <<files, showConfiguration, isLoadingDataFiles>>
    /\ UNCHANGED <<pendingUploads, uploadCount>>
    /\ FilesUnchanged

\* handleDeselectAll, then handleFileConfiguration
HandleDeselectAll ==
    /\ showConfiguration
    /\ Len(localSelection) # 0
    /\ localSelection' = <<>>
    /\ selectedFileIds' = <<>>
    /\ UNCHANGED <<files, showConfiguration, isLoadingDataFiles>>
    /\ UNCHANGED <<pendingUploads, uploadCount>>
    /\ FilesUnchanged

\* handleFileUpload of one text file, up to the await of createFileData
UploadStart ==
    /\ showConfiguration
    /\ uploadCount + pendingUploads < MaxUploads
    /\ pendingUploads' = pendingUploads + 1
    /\ UNCHANGED <<files, selectedFileIds, showConfiguration, localSelection>>
    /\ UNCHANGED <<isLoadingDataFiles, uploadCount>>
    /\ FilesUnchanged

\* createFileData resolves: the file is added and selected
UploadDone ==
    /\ pendingUploads > 0
    /\ pendingUploads' = pendingUploads - 1
    /\ uploadCount' = uploadCount + 1
    /\ files' = Append(files, createFileData(uploadCount'))
    /\ selectedFileIds' = Append(selectedFileIds, createFileData(uploadCount').id)
    /\ UNCHANGED <<showConfiguration, localSelection, isLoadingDataFiles>>
    /\ FilesUnchanged

\* createFileData rejects: the catch block
UploadFailed ==
    /\ pendingUploads > 0
    /\ pendingUploads' = pendingUploads - 1
    /\ uploadCount' = uploadCount + 1
    /\ UNCHANGED <<files, selectedFileIds, showConfiguration, localSelection>>
    /\ UNCHANGED isLoadingDataFiles
    /\ FilesUnchanged

\* handleRemoveFile of a file of the list: a data file is refused
HandleRemoveFile ==
    /\ showConfiguration
    /\ \E k \in 1..Len(files) :
          LET fileId == files[k].id
          IN  IF startsWith(fileId, DataPrefix)
              THEN UNCHANGED <<files, selectedFileIds>>
              ELSE /\ files' = SelectSeq(files, LAMBDA f : f.id # fileId)
                   /\ selectedFileIds' = SelectSeq(selectedFileIds, LAMBDA id : id # fileId)
    /\ UNCHANGED <<showConfiguration, localSelection, isLoadingDataFiles>>
    /\ UNCHANGED <<pendingUploads, uploadCount>>
    /\ FilesUnchanged

NextFiles ==
    \/ LoadStart \/ LoadDone \/ LoadFailed
    \/ OpenConfiguration \/ CloseConfiguration
    \/ HandleFileToggle \/ HandleSelectAll \/ HandleDeselectAll
    \/ UploadStart \/ UploadDone \/ UploadFailed
    \/ HandleRemoveFile

SpecFiles == InitFiles /\ [][NextFiles]_vars

----------------------------------------------------------------------------
(* SpecModule: the search box, handleSearch and handleExportDocx of        *)
(* LexicalModule over two files.  handleSearch has no await: it runs from  *)
(* its guards to its finally block before any other handler or callback.   *)
(* handleExportDocx passes the results and the term of the moment of the   *)
(* click to exportToDocx and awaits it.                                    *)

ModuleFiles ==
    << [id |-> "f1", name |-> "A.md", content |-> <<"a", "a", "a">>],
       [id |-> "f2", name |-> "B.md", content |-> <<"(", "b", "b">>] >>

\* what the user types in the search box
ModuleTerms == { <<>>, <<"a">>, <<"b">>, <<"(">> }

InitModule ==
    /\ files = ModuleFiles
    /\ selectedFileIds \in { <<>>, <<"f1", "f2">> }
    /\ searchTerm \in ModuleTerms
    /\ results = <<>>
    /\ debugInfo = <<>>
    /\ outcome = "idle"
    /\ calls = <<>>
    /\ isSearching = FALSE
    /\ isLoadingDataFiles = FALSE
    /\ showConfiguration = FALSE
    /\ localSelection = <<>>
    /\ searchPc = "idle"
    /\ pendingUploads = 0
    /\ uploadCount = 0
    /\ producedBy = <<>>
    /\ FmtIdle /\ ParaIdle /\ ExportIdle /\ SegIdle /\ ChatIdle

ModuleUnchanged ==
    /\ UNCHANGED <<files, selectedFileIds, outcome, calls>>
    /\ UNCHANGED <<isLoadingDataFiles, showConfiguration, localSelection>>
    /\ UNCHANGED <<pendingUploads, uploadCount>>
    /\ UNCHANGED <<fmtVars, paraVars, segVars, chatVars>>

ExportArgsUnchanged ==
    UNCHANGED <<xResults, xTerm, xpc, paragraphCounter, children, xError,
                xDebugInfo, savedAs>>

\* onChange of the input, which is disabled while nothing is selected
EditTerm ==
    /\ searchPc = "idle"
    /\ Len(selectedFileIds) # 0
    /\ searchTerm' \in ModuleTerms \ {searchTerm}
    /\ UNCHANGED <<results, debugInfo, isSearching, searchPc, producedBy>>
    /\ UNCHANGED <<isExporting, toast>>
    /\ ExportArgsUnchanged
    /\ ModuleUnchanged

\* handleSearch from its guards to setIsSearching(true)
HandleSearch ==
    /\ searchPc = "idle"
    /\ IF trim(searchTerm) = <<>>
       THEN /\ toast' = "Termo de busca necessário"
            /\ UNCHANGED <<isSearching, searchPc>>
       ELSE IF Len(selectedFileIds) = 0
       THEN /\ toast' = "Nenhum arquivo selecionado"
            /\ UNCHANGED <<isSearching, searchPc>>
       ELSE /\ isSearching' = TRUE
            /\ searchPc' = "searching"
            /\ UNCHANGED toast
    /\ UNCHANGED <<searchTerm, results, debugInfo, producedBy, isExporting>>
    /\ ExportArgsUnchanged
    /\ ModuleUnchanged

\* isSearching when handleSearch ends without its finally block after a throw
isSearchingAfterTryOnly(threw) == threw

\* isSearching when handleSearch ends: finally { setIsSearching(false) }
isSearchingAfter(threw) == FALSE

\* handleSearch from the try block to the end
HandleSearchCall ==
    /\ searchPc = "searching"
    /\ LET r == searchInFilesCall(files, selectedFileIds, searchTerm).value
       IN  /\ results' = IF r.threw THEN results ELSE r.results
           /\ debugInfo' = IF r.threw THEN debugInfo ELSE r.debugInfo
           /\ producedBy' = IF r.threw THEN producedBy ELSE searchTerm
           /\ toast' = IF r.threw THEN "Erro na busca" ELSE "Busca concluída"
           /\ isSearching' = isSearchingAfter(r.threw)
    /\ searchPc' = "idle"
    /\ UNCHANGED <<searchTerm, isExporting>>
    /\ ExportArgsUnchanged
    /\ ModuleUnchanged

\* handleExportDocx up to the call of exportToDocx with the results and the
\* term of the component; its button is disabled while isExporting
ModuleExportDocx ==
    /\ searchPc = "idle"
    /\ xpc \in {"idle", "done"}
    /\ ~isExporting
    /\ IF Len(results) = 0
       THEN /\ xpc' = "done"
            /\ UNCHANGED <<xResults, xTerm, xDebugInfo, isExporting>>
            /\ UNCHANGED <<paragraphCounter, children, xError, savedAs>>
       ELSE /\ xpc' = "called"
            /\ isExporting' = TRUE
            /\ xResults' = results
            /\ xTerm' = searchTerm
            /\ xDebugInfo' = debugInfo
            /\ paragraphCounter' = 0
            /\ children' = <<>>
            /\ xError' = FALSE
            /\ savedAs' = <<>>
    /\ UNCHANGED <<searchTerm, results, debugInfo, isSearching, searchPc, producedBy>>
    /\ UNCHANGED toast
    /\ ModuleUnchanged

\* a step of the export under way, between two handlers
ModuleExportStep ==
    /\ searchPc = "idle"
    /\ \/ ExportImported \/ ExportBuild \/ ExportSaved \/ ExportFailed
       \/ HandleExportResolved \/ HandleExportRejected

NextModule ==
    \/ EditTerm \/ HandleSearch \/ HandleSearchCall
    \/ ModuleExportDocx \/ ModuleExportStep

SpecModule == InitModule /\ [][NextModule]_vars

\* the step that ends handleSearch: under SpecModule it is HandleSearchCall,
\* enabled whenever the handler is past its guards
HandleSearchEnds ==
    /\ searchPc = "searching"
    /\ searchPc' = "idle"

\* a step of the export under way: under SpecModule it is ModuleExportStep,
\* enabled between two handlers whenever exportToDocx has not been handled
ExportAdvances ==
    /\ searchPc = "idle"
    /\ xpc \in {"called", "imported", "built", "saved", "failed"}
    /\ xpc' \in {"imported", "built", "saved", "failed", "done"} \ {xpc}

\* a handler that runs ends; a promise that is awaited settles and the event
\* loop runs its continuation between two handlers, however often the user
\* starts another search in the meantime
FairSpecModule ==
    /\ SpecModule
    /\ WF_searchPc(HandleSearchEnds)
    /\ SF_xpc(ExportAdvances)

----------------------------------------------------------------------------
(* SpecChat: OpenAIService.  One call of openaiCall or of                  *)
(* initializeConversation is under way at a time; resetConversation is     *)
(* synchronous and may be called at any moment, also while a call awaits   *)
(* the API.  The API answers the n-th request with a response of id n, or  *)
(* rejects it.                                                             *)

\* the requests sent in one behaviour
MaxRequests == 4

\* the conversation ids the callers pass; <<>> is a missing or empty one
CallerIds == { <<"c", "1">>, <<"c", "2">> }

\* the values of Date.now()
ClockValues == {1, 2}

\* `conv-${Date.now()}`
generatedId(now) == <<"c", "o", "n", "v", "-">> \o numberToString(now)

ConversationIds == CallerIds \cup { generatedId(now) : now \in ClockValues }

\* ConversationStorage.has
has(storage, conversationId) == conversationId \in DOMAIN storage

\* ConversationStorage.get; 0 is null
get(storage, conversationId) ==
    IF has(storage, conversationId) THEN storage[conversationId] ELSE 0

\* ConversationStorage.set
set(storage, conversationId, responseId) ==
    [k \in DOMAIN storage \cup {conversationId} |->
        IF k = conversationId THEN responseId ELSE storage[k]]

\* ConversationStorage.delete
delete(storage, conversationId) ==
    [k \in DOMAIN storage \ {conversationId} |-> storage[k]]

\* the fields of the request that bear on the chaining; 0 is a request
\* without previous_response_id
buildRequestParams(storage, conversationId, isInitialMessage) ==
    [ conversationId       |-> conversationId,
      initial              |-> isInitialMessage,
      previous_response_id |->
          IF conversationId # <<>> /\ ~isInitialMessage
          THEN get(storage, conversationId)
          ELSE 0 ]

\* processResponse that keeps the id stored first
processResponseKeepFirst(storage, responseId, conversationId) ==
    IF conversationId # <<>> /\ responseId # 0 /\ ~has(storage, conversationId)
    THEN set(storage, conversationId, responseId)
    ELSE storage

\* the map after processResponse(response, conversationId)
processResponse(storage, responseId, conversationId) ==
    IF conversationId # <<>> /\ responseId # 0
    THEN set(storage, conversationId, responseId)
    ELSE storage

\* the response ids received for a conversation, after one more
received(ids, responseId, conversationId) ==
    IF conversationId # <<>>
    THEN [ids EXCEPT ![conversationId] = @ \cup {responseId}]
    ELSE ids

ChatEnded(op, conversationId, result) ==
    [op |-> op, conversationId |-> conversationId, outcome |-> result]

InitChat ==
    /\ conversationStorage = <<>>
    /\ pending = <<>>
    /\ lastRequest = <<>>
    /\ requestCount = 0
    /\ chatResult = <<>>
    /\ receivedIds = [id \in ConversationIds |-> {}]
    /\ staleIds = [id \in ConversationIds |-> {}]
    /\ SearchIdle /\ FmtIdle /\ ParaIdle /\ ExportIdle /\ SegIdle

OthersUnchanged ==
    UNCHANGED <<searchVars, fmtVars, paraVars, exportVars, segVars>>

\* openaiCall up to its first await
OpenaiCall(conversationId, blankMessage, now) ==
    /\ pending = <<>>
    /\ requestCount + 2 <= MaxRequests
    /\ IF blankMessage
       THEN /\ chatResult' = ChatEnded("openaiCall", conversationId,
                                       "Message is required")
            /\ UNCHANGED <<pending, lastRequest, requestCount>>
       ELSE IF conversationId = <<>> \/ ~has(conversationStorage, conversationId)
       THEN LET target == IF conversationId # <<>> THEN conversationId
                          ELSE generatedId(now)
            IN  IF has(conversationStorage, target)
                THEN /\ chatResult' = ChatEnded("openaiCall", conversationId,
                                                "API call failed")
                     /\ UNCHANGED <<pending, lastRequest, requestCount>>
                ELSE /\ lastRequest' =
                            buildRequestParams(conversationStorage, target, TRUE)
                     /\ requestCount' = requestCount + 1
                     /\ pending' = [ op             |-> "openaiCall",
                                     stage          |-> "initialize",
                                     conversationId |-> conversationId,
                                     target         |-> target ]
                     /\ UNCHANGED chatResult
       ELSE /\ lastRequest' =
                   buildRequestParams(conversationStorage, conversationId, FALSE)
            /\ requestCount' = requestCount + 1
            /\ pending' = [ op             |-> "openaiCall",
                            stage          |-> "call",
                            conversationId |-> conversationId,
                            target         |-> conversationId ]
            /\ UNCHANGED chatResult
    /\ UNCHANGED <<conversationStorage, receivedIds, staleIds>>
    /\ OthersUnchanged

\* initializeConversation, called by itself, up to its await
InitializeConversation(conversationId) ==
    /\ pending = <<>>
    /\ requestCount + 1 <= MaxRequests
    /\ IF conversationId = <<>>
       THEN /\ chatResult' = ChatEnded("initializeConversation", conversationId,
                                       "conversationId is required")
            /\ UNCHANGED <<pending, lastRequest, requestCount>>
       ELSE IF has(conversationStorage, conversationId)
       THEN /\ chatResult' = ChatEnded("initializeConversation", conversationId,
                                       "already exists")
            /\ UNCHANGED <<pending, lastRequest, requestCount>>
       ELSE /\ lastRequest' =
                   buildRequestParams(conversationStorage, conversationId, TRUE)
            /\ requestCount' = requestCount + 1
            /\ pending' = [ op             |-> "initializeConversation",
                            stage          |-> "initialize",
                            conversationId |-> conversationId,
                            target         |-> conversationId ]
            /\ UNCHANGED chatResult
    /\ UNCHANGED <<conversationStorage, receivedIds, staleIds>>
    /\ OthersUnchanged

\* responses.create resolves: processResponse, and in openaiCall after the
\* initialization the request of the call itself
ResponseArrives ==
    /\ pending # <<>>
    /\ LET responseId == requestCount
           stored == processResponse(conversationStorage, responseId,
                        IF pending.stage = "initialize" THEN pending.target
                        ELSE pending.conversationId)
       IN  /\ conversationStorage' = stored
           /\ receivedIds' = received(receivedIds, responseId,
                        IF pending.stage = "initialize" THEN pending.target
                        ELSE pending.conversationId)
           /\ IF pending.stage = "initialize" /\ pending.op = "openaiCall"
              THEN /\ lastRequest' =
                          buildRequestParams(stored, pending.conversationId, FALSE)
                   /\ requestCount' = requestCount + 1
                   /\ pending' = [pending EXCEPT !.stage = "call"]
                   /\ UNCHANGED chatResult
              ELSE /\ pending' = <<>>
                   /\ chatResult' = ChatEnded(pending.op, pending.conversationId,
                                              "ok")
                   /\ UNCHANGED <<lastRequest, requestCount>>
    /\ UNCHANGED staleIds
    /\ OthersUnchanged

\* responses.create rejects: the catch blocks rethrow
RequestRejected ==
    /\ pending # <<>>
    /\ pending' = <<>>
    /\ chatResult' = ChatEnded(pending.op, pending.conversationId,
                        IF pending.op = "openaiCall" THEN "API call failed"
                        ELSE "Failed to initialize conversation")
    /\ UNCHANGED <<conversationStorage, lastRequest, requestCount>>
    /\ UNCHANGED <<receivedIds, staleIds>>
    /\ OthersUnchanged

\* resetConversation
ResetConversation(conversationId) ==
    /\ IF conversationId = <<>>
       THEN /\ chatResult' = ChatEnded("resetConversation", conversationId,
                                       "conversationId is required")
            /\ UNCHANGED <<conversationStorage, staleIds>>
       ELSE /\ conversationStorage' = delete(conversationStorage, conversationId)
            /\ staleIds' = [staleIds EXCEPT ![conversationId] =
                               @ \cup receivedIds[conversationId]]
            /\ UNCHANGED chatResult
    /\ UNCHANGED <<pending, lastRequest, requestCount, receivedIds>>
    /\ OthersUnchanged

NextChat ==
    \/ \E conversationId \in CallerIds \cup {<<>>}, blankMessage \in BOOLEAN,
          now \in ClockValues :
            OpenaiCall(conversationId, blankMessage, now)
    \/ \E conversationId \in CallerIds \cup {<<>>} :
            InitializeConversation(conversationId)
    \/ ResponseArrives
    \/ RequestRejected
    \/ \E conversationId \in CallerIds \cup {<<>>} :
            ResetConversation(conversationId)

SpecChat == InitChat /\ [][NextChat]_vars

----------------------------------------------------------------------------
(* Properties of the formatting pipeline, checked under SpecFormat *)

Texts(segs) == [i \in 1..Len(segs) |-> segs[i].text]

\* the concatenation of the strings of a sequence
RECURSIVE Concat(_)
Concat(parts) == IF parts = <<>> THEN <<>> ELSE Head(parts) \o Concat(Tail(parts))

Flags(seg) == <<seg.isBold, seg.isItalic, seg.isCode, seg.isStrikethrough>>

\* the term as the pipeline compares it
ProcessedTerm(t) == toLowerCase(trim(t))

\* the number of non-overlapping occurrences of t in s from position i,
\* compared character by character ignoring case
RECURSIVE LiteralCountFrom(_, _, _)
LiteralCountFrom(s, t, i) ==
    IF i + Len(t) - 1 > Len(s) THEN 0
    ELSE IF OccursAt(toLowerCase(s), toLowerCase(t), i)
         THEN 1 + LiteralCountFrom(s, t, i + Len(t))
         ELSE LiteralCountFrom(s, t, i + 1)

LiteralCount(s, t) == LiteralCountFrom(s, t, 1)

RECURSIVE SumSeq(_)
SumSeq(ns) == IF ns = <<>> THEN 0 ELSE Head(ns) + SumSeq(Tail(ns))

\* the alternative of markdownRegex that matches at position i (0 if none)
RECURSIVE MatchedAltFrom(_, _, _)
MatchedAltFrom(s, i, k) ==
    IF k > Len(MarkdownDelims) THEN 0
    ELSE IF altMatchLen(s, MarkdownDelims[k], i) > 0 THEN k
    ELSE MatchedAltFrom(s, i, k + 1)

\* s with the opening and the closing delimiter of every recognised markdown
\* span removed, read off the matches of markdownRegex
RECURSIVE WithoutDelimiters(_, _)
WithoutDelimiters(s, from) ==
    LET at == markdownExec(s, from)
    IN  IF at = 0 THEN SubSeq(s, from, Len(s))
        ELSE LET d   == Len(MarkdownDelims[MatchedAltFrom(s, at, 1)])
                 len == markdownMatchLen(s, at)
             IN  SubSeq(s, from, at - 1)
                 \o SubSeq(s, at + d, at + len - 1 - d)
                 \o WithoutDelimiters(s, at + len)

HasMarkdownSpan(s) == markdownExec(s, 1) # 0

Matched(s, t) == trim(t) # <<>> /\ includes(toLowerCase(s), ProcessedTerm(t))

\* C1 as stated: for a matched paragraph the concatenation of the texts of the
\* segments of getFormattedTextSegments is the paragraph itself.  It is stated
\* here for the paragraphs whose markdown spans all enclose text, which leaves
\* out the lone "**" of C10.
C1_ConcatIsParagraph ==
    (/\ fmtDone = "done"
     /\ Matched(text, term)
     /\ \A i \in DOMAIN segments : segments[i].text # <<>>)
        => Concat(Texts(highlighted)) = text

\* C1 amended: the concatenation is the paragraph without the opening and
\* closing delimiters of its recognised markdown spans, nothing else being
\* lost, added or duplicated; it is the paragraph itself when the paragraph
\* has no recognised markdown span.
C1_ConcatIsParagraphWithoutDelimiters ==
    fmtDone = "done" =>
        /\ Concat(Texts(highlighted)) = WithoutDelimiters(text, 1)
        /\ ~HasMarkdownSpan(text) => Concat(Texts(highlighted)) = text

C1_Witness ==
    /\ fmtDone = "done"
    /\ Matched(text, term)
    /\ HasMarkdownSpan(text)
    /\ \E i \in DOMAIN highlighted : highlighted[i].isHighlighted /\ highlighted[i].isBold
    /\ \E i \in DOMAIN highlighted : ~highlighted[i].isHighlighted
    /\ Concat(Texts(highlighted)) # text

\* out is, span by span, a split of the spans segs into non-empty pieces that
\* carry the style flags of their span and whose texts concatenate to its text
RECURSIVE SplitsSpans(_, _)
SplitsSpans(segs, out) ==
    IF segs = <<>> THEN out = <<>>
    ELSE IF Head(segs).text = <<>>
         THEN /\ out # <<>>
              /\ Head(out) = Head(segs)
              /\ SplitsSpans(Tail(segs), Tail(out))
         ELSE \E n \in 1..Len(out) :
                /\ Concat(Texts(SubSeq(out, 1, n))) = Head(segs).text
                /\ \A k \in 1..n : /\ Flags(out[k]) = Flags(Head(segs))
                                     /\ out[k].text # <<>>
                /\ SplitsSpans(Tail(segs), SubSeq(out, n + 1, Len(out)))

\* C8: for a non-blank term every span is split into pieces; a piece is
\* highlighted exactly when it is an occurrence of the trimmed term ignoring
\* case, no other piece contains an occurrence, the pieces keep the characters
\* of the span in their original case and carry the style flags of the span.
C8_HighlightSplitsSpans ==
    (fmtDone = "done" /\ trim(term) # <<>>) =>
        /\ SplitsSpans(segments, highlighted)
        /\ \A i \in DOMAIN highlighted :
              /\ highlighted[i].isHighlighted
                    <=> toLowerCase(highlighted[i].text) = ProcessedTerm(term)
              /\ ~highlighted[i].isHighlighted
                    => ~includes(toLowerCase(highlighted[i].text), ProcessedTerm(term))

\* the term is upper case, the text lower case: the highlighted piece keeps "a"
C8_Witness ==
    /\ fmtDone = "done"
    /\ term = <<" ", "A">>
    /\ Len(highlighted) > Len(segments)
    /\ \E i \in DOMAIN highlighted :
          highlighted[i].isHighlighted /\ highlighted[i].text = <<"a">>
          /\ highlighted[i].isItalic
    /\ \E i \in DOMAIN highlighted :
          ~highlighted[i].isHighlighted /\ highlighted[i].isItalic

\* C9: the term is matched literally and the call never throws: a piece is
\* highlighted only if it equals the trimmed term ignoring case, and the
\* highlighted pieces are as many as the literal occurrences of the term in
\* the spans (the term "." highlights the "." characters and nothing else).
C9_TermIsLiteral ==
    /\ fmtDone # "threw"
    /\ (fmtDone = "done" /\ trim(term) # <<>>) =>
          /\ \A i \in DOMAIN highlighted :
                highlighted[i].isHighlighted
                    => toLowerCase(highlighted[i].text) = ProcessedTerm(term)
          /\ Cardinality({i \in DOMAIN highlighted : highlighted[i].isHighlighted})
                = SumSeq([i \in 1..Len(segments) |->
                            LiteralCount(segments[i].text, trim(term))])

C9_Witness ==
    /\ fmtDone = "done"
    /\ term \in { <<".">>, <<"(">>, <<"a", ".">> }
    /\ \E i \in DOMAIN highlighted : highlighted[i].isHighlighted
    /\ \E i \in DOMAIN highlighted :
          ~highlighted[i].isHighlighted /\ highlighted[i].text # <<>>

\* the number of characters c in s
CountChar(s, c) == Cardinality({i \in 1..Len(s) : s[i] = c})

\* marker occurs in s and s holds no other character of the marker: it has
\* no closing marker
Dangling(s, marker) ==
    /\ includes(s, marker)
    /\ CountChar(s, marker[1]) = Len(marker)

\* C10 as stated: a marker without a closing marker appears literally in the
\* texts of the spans splitByMarkdown emits, and the call does not throw.
C10_DanglingDelimitersKept ==
    /\ fmtDone # "threw"
    /\ fmtDone = "done" =>
          \A k \in 1..Len(MarkdownDelims) :
              Dangling(text, MarkdownDelims[k])
                  => includes(Concat(Texts(segments)), MarkdownDelims[k])

----------------------------------------------------------------------------
(* Properties of processFoundParagraph, checked under SpecParagraph *)

\* the pieces between the "|" characters of s, each trimmed
TrimmedPieces(s) == [k \in 1..Len(split(s, <<"|">>)) |-> trim(split(s, <<"|">>)[k])]

\* C3: a paragraph with at least two "|" (three pieces) becomes piece 0
\* followed by the later pieces that contain the term ignoring case, in their
\* order, joined by single spaces, the other pieces being dropped; any other
\* paragraph is returned unmodified; the example of the specification gives
\* "Intro text mentions abc here another abc mention".  The pieces are trimmed.
C3_RestructureKeepsMatchingPieces ==
    pDone = "done" =>
        /\ CountChar(paragraph, "|") >= 2 =>
              processed =
                  join(<<TrimmedPieces(paragraph)[1]>>
                       \o SelectSeq(Tail(TrimmedPieces(paragraph)),
                                    LAMBDA piece :
                                        includes(toLowerCase(piece), ProcessedTerm(pTerm))),
                       <<" ">>)
        /\ CountChar(paragraph, "|") < 2 => processed = paragraph
        /\ (paragraph = ExampleParagraph /\ pTerm = ExampleTerm)
              => processed = ExampleRestructured

\* a paragraph of three pieces of which the middle one is dropped
C3_Witness ==
    /\ pDone = "done"
    /\ CountChar(paragraph, "|") = 2
    /\ ~includes(toLowerCase(TrimmedPieces(paragraph)[2]), ProcessedTerm(pTerm))
    /\ includes(toLowerCase(TrimmedPieces(paragraph)[3]), ProcessedTerm(pTerm))
    /\ processed = TrimmedPieces(paragraph)[1] \o <<" ">> \o TrimmedPieces(paragraph)[3]
    /\ processed # paragraph

----------------------------------------------------------------------------
(* Properties of searchInFiles, checked under Spec *)

\* the document a selected id stands for, as a set of at most one file
FileOf(fileId) == { files[k] : k \in { j \in 1..Len(files) : files[j].id = fileId } }

\* the paragraphs of a document that contain the term, in their order
MatchedParagraphs(file) ==
    SelectSeq(splitTextIntoParagraphs(file.content).paragraphs,
              LAMBDA p : includes(toLowerCase(p), ProcessedTerm(searchTerm)))

\* the names of the selected documents with a matched paragraph, in the order
\* of the selection
RECURSIVE MatchingNames(_)
MatchingNames(ids) ==
    IF ids = <<>> THEN <<>>
    ELSE (IF \E f \in FileOf(Head(ids)) : MatchedParagraphs(f) # <<>>
          THEN <<(CHOOSE f \in FileOf(Head(ids)) : TRUE).name>>
          ELSE <<>>)
         \o MatchingNames(Tail(ids))

FileNamed(name) == CHOOSE k \in 1..Len(files) : files[k].name = name

\* C2 as stated: occurrenceCount is the number of non-overlapping literal
\* occurrences, ignoring case, of the trimmed term in the matched paragraphs
\* of the document as segmented (before restructuring).
C2_OccurrenceCountIsLiteral ==
    outcome = "returned" =>
        \A r \in DOMAIN results :
            results[r].occurrenceCount =
                SumSeq([k \in 1..Len(MatchedParagraphs(files[FileNamed(results[r].fileName)])) |->
                          LiteralCount(MatchedParagraphs(files[FileNamed(results[r].fileName)])[k],
                                       trim(searchTerm))])

\* C4 as stated: searchInFiles returns for every input and never throws.
C4_SearchNeverThrows == outcome # "threw"

\* C5: a blank term or an empty selection gives empty results and an empty
\* debug sequence, without an exception, whatever the documents hold.
C5_BlankSearchReturnsEmpty ==
    (outcome # "input" /\ (trim(searchTerm) = <<>> \/ selectedFileIds = <<>>)) =>
        /\ outcome = "returned"
        /\ results = <<>>
        /\ debugInfo = <<>>

\* a whitespace-only term, both documents selected, both holding text
C5_Witness ==
    /\ outcome = "returned"
    /\ searchTerm = <<" ">>
    /\ selectedFileIds = <<"f1", "f2">>
    /\ \A k \in 1..Len(files) :
          splitTextIntoParagraphs(files[k].content).paragraphs # <<>>
    /\ results = <<>>

\* C6: for a non-blank term, a call that returns gives one result for each
\* selected document with a paragraph containing the term and none for any
\* other, in the order of selectedFileIds, none with empty foundParagraphs.
C6_OneResultPerMatchingDocument ==
    (outcome = "returned" /\ trim(searchTerm) # <<>>) =>
        /\ [r \in 1..Len(results) |-> results[r].fileName] = MatchingNames(selectedFileIds)
        /\ \A r \in DOMAIN results : results[r].foundParagraphs # <<>>

\* the second document is selected first and matches; the first document
\* holds paragraphs, none with the term
C6_Witness ==
    /\ outcome = "returned"
    /\ selectedFileIds = <<"f2", "f1">>
    /\ trim(searchTerm) # <<>>
    /\ Len(results) = 1
    /\ results[1].fileName = "B.md"
    /\ splitTextIntoParagraphs(files[1].content).paragraphs # <<>>

----------------------------------------------------------------------------
(* Properties of exportToDocx, checked under SpecExport *)

\* the paragraphs of a result set in the order they are visited, each with
\* the index of its result
RECURSIVE VisitedParagraphs(_, _)
VisitedParagraphs(rs, r) ==
    IF r > Len(rs) THEN <<>>
    ELSE [i \in 1..Len(rs[r].foundParagraphs) |->
             [result |-> r, text |-> rs[r].foundParagraphs[i]]]
         \o VisitedParagraphs(rs, r + 1)

\* the value a sequence of decimal digits denotes, -1 if it holds another character
RECURSIVE DigitsValue(_)
DigitsValue(ds) ==
    IF ds = <<>> THEN 0
    ELSE LET d    == { k \in 0..9 : DigitChars[k + 1] = ds[Len(ds)] }
             rest == DigitsValue(SubSeq(ds, 1, Len(ds) - 1))
         IN  IF d = {} \/ rest < 0 THEN -1
             ELSE 10 * rest + (CHOOSE k \in d : TRUE)

\* the number of decimal digits of n
RECURSIVE DigitCount(_)
DigitCount(n) == IF n < 10 THEN 1 ELSE 1 + DigitCount(n \div 10)

Entries == SelectSeq(children, LAMBDA c : c.kind = "entry")

\* the file heading that precedes the k-th entry
RECURSIVE HeadingBefore(_, _)
HeadingBefore(cs, j) ==
    IF j = 0 THEN "" 
    ELSE IF cs[j].kind = "fileHeading" THEN cs[j].fileName
    ELSE HeadingBefore(cs, j - 1)

\* the position in children of the k-th entry
EntryPosition(k) ==
    CHOOSE j \in 1..Len(children) :
        /\ children[j].kind = "entry"
        /\ Cardinality({ i \in 1..j : children[i].kind = "entry" }) = k

\* C7: the k-th paragraph visited (results in order, then the paragraphs of
\* each result) is the k-th entry, under the heading of its result, and its
\* first run is bold and reads k in decimal, padded with one zero below 10
\* and unpadded from 100 on, followed by ". "; the count runs on across the
\* results and ends at the number of paragraphs.
C7_ExportNumbering ==
    xpc \in {"built", "saved"} =>
        LET visited == VisitedParagraphs(xResults, 1)
        IN  /\ Len(Entries) = Len(visited)
            /\ paragraphCounter = Len(visited)
            /\ \A k \in 1..Len(visited) :
                  LET prefix == Entries[k].runs[1]
                      digits == SubSeq(prefix.text, 1, Len(prefix.text) - 2)
                  IN  /\ prefix.bold
                      /\ SubSeq(prefix.text, Len(prefix.text) - 1, Len(prefix.text))
                            = <<".", " ">>
                      /\ DigitsValue(digits) = k
                      /\ Len(digits) = IF k < 10 THEN 2 ELSE DigitCount(k)
                      /\ HeadingBefore(children, EntryPosition(k))
                            = xResults[visited[k].result].fileName
                      /\ Concat([i \in 1..(Len(Entries[k].runs) - 1) |->
                                    Entries[k].runs[i + 1].text])
                            = WithoutDelimiters(visited[k].text, 1)

\* two results whose paragraphs are numbered past 99, the second result
\* starting where the first stopped
C7_Witness ==
    /\ xpc = "saved"
    /\ Len(xResults) = 2
    /\ Len(xResults[1].foundParagraphs) = 98
    /\ Len(xResults[2].foundParagraphs) = 9
    /\ Entries[2].runs[1].text = <<"0", "2", ".", " ">>
    /\ Entries[99].runs[1].text = <<"9", "9", ".", " ">>
    /\ Entries[100].runs[1].text = <<"1", "0", "0", ".", " ">>
    /\ HeadingBefore(children, EntryPosition(100)) = "B.md"

----------------------------------------------------------------------------
(* Properties of splitTextIntoParagraphs, checked under SpecSegment *)

\* the index of the method the first call chose
ChosenFirst == MethodIndex(splitResult.splitInfo.chosenMethod)

\* C11: segmentation is idempotent on the paragraph count: the paragraphs
\* of a document, joined with the delimiter of the method that was chosen
\* and segmented again, are as many as before
C11_ResegmentingKeepsCount ==
    segDone = "again"
        => Len(splitAgain.paragraphs) = Len(splitResult.paragraphs)

\* C11 as amended: the count is kept when the method chosen is one of the
\* three that split on a string, and when it is the fourth and the
\* paragraphs are joined with a line of blanks; joined with an empty line
\* the paragraphs of the fourth method can be segmented differently
C11_ResegmentingKeepsCountUnlessEmptyLine ==
    (segDone = "again" /\ (ChosenFirst # 4 \/ delimiter = <<"\n", " ", "\n">>))
        => Len(splitAgain.paragraphs) = Len(splitResult.paragraphs)

\* each of the four methods chosen and its paragraphs segmented again, the
\* fourth after a join with a line of blanks
C11_Witness ==
    /\ segDone = "again"
    /\ ChosenFirst = 4
    /\ delimiter = <<"\n", " ", "\n">>
    /\ Len(splitResult.paragraphs) = 2
    /\ splitAgain.splitInfo.chosenMethod = MethodNames[4]

\* the document of the example: 1500 characters, one double line break and
\* 60 single line breaks, as the SplitInfo of the call counts them
IsExampleDocument ==
    /\ segDone # "input"
    /\ splitResult.splitInfo.originalLength = 1500
    /\ splitResult.splitInfo.doubleNewlineCount = 1
    /\ splitResult.splitInfo.singleNewlineCount = 60

Counts == splitResult.splitInfo.paragraphCounts

\* C12: for every document of 1500 characters with one double line break
\* and 60 single line breaks the method chosen is 'Single newline'
C12_ExampleChoosesSingleNewline ==
    IsExampleDocument => ChosenFirst = 1

\* C12 as amended: for such a document the method chosen is never 'Double
\* newline'; it is 'Single newline' unless candidate (c) holds more than 5
\* and fewer than 80% of the paragraphs of (a), when it is 'Meaningful
\* lines', or (a) holds at most 3 paragraphs and (d) more than (b), when it
\* is 'Paragraph blocks'
C12_ExampleChoosesByCounts ==
    IsExampleDocument =>
        ChosenFirst =
            IF Counts[3] > 5 /\ 10 * Counts[3] < 8 * Counts[1] THEN 3
            ELSE IF Counts[1] <= 3 /\ Counts[4] > Counts[2] THEN 4
            ELSE 1

\* an example document of 60 lines that all count for (a) and (c): 'Single
\* newline' is chosen
C12_Witness ==
    /\ IsExampleDocument
    /\ Counts[1] = 60 /\ Counts[2] = 2 /\ Counts[3] = 60
    /\ ChosenFirst = 1

\* C13: splitTextIntoParagraphs on a zero-length body returns no paragraph
\* and a report, and searchInFiles returns, with no result, for the
\* document of that body
C13_EmptyBodyHasNoParagraphs ==
    docText = <<>> =>
        /\ segDone \in {"split", "again"} =>
              /\ splitResult.paragraphs = <<>>
              /\ splitResult.splitInfo.chosenMethod = MethodNames[1]
              /\ splitResult.splitInfo.paragraphCounts = <<0, 0, 0, 0>>
              /\ splitResult.splitInfo.originalLength = 0
        /\ segDone = "again" => splitAgain = splitResult
        /\ outcome # "input" => (outcome = "returned" /\ results = <<>>)

\* the empty body segmented and searched
C13_Witness ==
    /\ docText = <<>>
    /\ segDone = "split"
    /\ splitResult.paragraphs = <<>>
    /\ files[1].content = <<>>
    /\ selectedFileIds = <<"f1">>
    /\ outcome = "returned"

----------------------------------------------------------------------------
(* Properties of the two pipelines, checked under SpecRender *)

\* the pieces that hold text
WithText(segs) == SelectSeq(segs, LAMBDA seg : seg.text # <<>>)

\* C14: for a matched paragraph the results panel and the export produce
\* the same pieces of text, in the same order, with the same highlighted
\* flag and the same styling.  Stated for the terms without blanks around
\* them, and for the pieces that hold text.
C14_PanelAndExportAgree ==
    (renderDone = "done" /\ fmtDone = "done" /\ Matched(text, term) /\ trim(term) = term)
        => WithText(rendered) = WithText(highlighted)

----------------------------------------------------------------------------
(* Properties of handleExportDocx and exportToDocx, checked under SpecExport *)

\* C15: when an import or the document writer rejects, exportToDocx rejects
\* (its catch block rethrows), handleExportDocx then runs its catch block,
\* which shows the error toast, and neither step changes the searchResults
\* and the debugInfo on display; the success toast is shown only after
\* saveAs was called.
C15_ExportFailureKeepsResults ==
    [][ /\ (xpc' = "failed" /\ xpc # "failed") =>
              /\ xError'
              /\ xResults' = xResults /\ xDebugInfo' = xDebugInfo
        /\ (xpc = "failed" /\ xpc' # "failed") =>
              /\ xpc' = "done" /\ toast' = "Erro na exportação"
              /\ xResults' = xResults /\ xDebugInfo' = xDebugInfo
        /\ toast' = "Exportação concluída" => (~xError /\ savedAs # <<>>)
      ]_vars

\* Packer.toBlob rejected after the document was built from two results, and
\* handleExportDocx has handled the rejection
C15_Witness ==
    /\ xpc = "done"
    /\ xError
    /\ toast = "Erro na exportação"
    /\ savedAs = <<>>
    /\ children # <<>>
    /\ Len(xResults) = 2
    /\ Len(xDebugInfo) = 2

\* the part of the file name between "search_results_" and "_<date>.docx"
TermPart ==
    SubSeq(savedAs, Len(FileNamePrefix) + 1,
           Len(savedAs) - Len(ExportDate) - Len(FileNameExtension) - 1)

\* C16 as stated: the term part of the file name is the search term without
\* its characters outside [A-Za-z0-9].
C16_TermPartStripped ==
    savedAs # <<>> => TermPart = SelectSeq(xTerm, LAMBDA c : c \in AlphaNumerics)

\* C16: the term part of the file name has the length of the search term,
\* with the term's ASCII letters and digits in their places and an underscore
\* in the place of every other character; the name starts with
\* "search_results_" and ends with "_", the date and ".docx".
C16_TermPartUnderscored ==
    savedAs # <<>> =>
        /\ Len(TermPart) = Len(xTerm)
        /\ \A i \in 1..Len(xTerm) :
              TermPart[i] = IF xTerm[i] \in AlphaNumerics THEN xTerm[i] ELSE "_"
        /\ savedAs = FileNamePrefix \o TermPart \o <<"_">> \o ExportDate
                        \o FileNameExtension

\* a saved export whose term has a space and a full stop between letters
C16_Witness ==
    /\ xpc = "saved"
    /\ xTerm = <<"a", " ", "B", ".", "1">>
    /\ TermPart = <<"a", "_", "B", "_", "1">>

----------------------------------------------------------------------------
(* Properties of searchInFiles on selections with unknown ids, under Spec *)

\* the selection without the ids that match no document
KnownIds(fs, selectedIds) ==
    SelectSeq(selectedIds, LAMBDA fileId : \E k \in 1..Len(fs) : fs[k].id = fileId)

\* C17: a selected id that matches no document is skipped: the call ends as
\* the call with the selection without that id ends, with the same results
\* and debugInfo, and it throws only if that call throws.
C17_UnknownIdSkipped ==
    outcome # "input" =>
        LET r == searchInFiles(files, KnownIds(files, selectedFileIds), searchTerm)
        IN  /\ (outcome = "threw") = r.threw
            /\ results = r.results
            /\ debugInfo = r.debugInfo

\* an unknown id selected before a document that has a match
C17_Witness ==
    /\ outcome = "returned"
    /\ selectedFileIds = <<"gone", "f2">>
    /\ Len(results) = 1
    /\ results[1].fileName = "B.md"

----------------------------------------------------------------------------
(* Properties of applyHighlightToSegments and splitByMarkdown, checked     *)
(* under SpecFormat                                                        *)

\* C18: with an empty or whitespace-only term applyHighlightToSegments
\* returns the spans it was given, the same number in the same order with
\* the same text and style flags, none of them highlighted, and throws
\* nothing.
C18_BlankTermKeepsSpans ==
    (fmtDone # "input" /\ trim(term) = <<>>) =>
        /\ fmtDone = "done"
        /\ Len(highlighted) = Len(segments)
        /\ \A i \in 1..Len(segments) :
              /\ highlighted[i].text = segments[i].text
              /\ highlighted[i].isBold = segments[i].isBold
              /\ highlighted[i].isItalic = segments[i].isItalic
              /\ highlighted[i].isCode = segments[i].isCode
              /\ highlighted[i].isStrikethrough = segments[i].isStrikethrough
              /\ ~highlighted[i].isHighlighted

\* a whitespace-only term applied to a bold span and a plain span
C18_Witness ==
    /\ fmtDone = "done"
    /\ term = <<" ">>
    /\ text = <<"a", "*", "*", "A", "*", "*">>
    /\ Len(highlighted) = 2
    /\ highlighted[2].isBold /\ highlighted[2].text = <<"A">>

\* the text between the outer pairs of a text "**x**" with no asterisk in x
BoldBody(s) == SubSeq(s, 3, Len(s) - 2)

IsBoldForm(s) ==
    /\ Len(s) >= 4
    /\ SubSeq(s, 1, 2) = <<"*", "*">>
    /\ SubSeq(s, Len(s) - 1, Len(s)) = <<"*", "*">>
    /\ \A i \in 3..(Len(s) - 2) : s[i] # "*"

\* C19: splitByMarkdown turns a text "**x**", x without an asterisk, into one
\* span whose text is x, bold and not italic (nor code, nor struck through).
C19_DoubleAsteriskIsOneBoldSpan ==
    (fmtDone # "input" /\ IsBoldForm(text)) =>
        segments = <<Segment(BoldBody(text), TRUE, FALSE, FALSE, FALSE, FALSE)>>

----------------------------------------------------------------------------
(* Properties of repeated calls of searchInFiles, checked under SpecCalls *)

----------------------------------------------------------------------------
(* Properties of the choice of the method in splitTextIntoParagraphs,      *)
(* checked under SpecSegment                                               *)

Segmented == chosenSteps # <<>>

\* the number of characters of the normalized text
NormalizedLength == splitResult.splitInfo.normalizedLength

\* C21: before the safety checks the candidate chosen is (c) if it has more
\* than 5 paragraphs and fewer than 0.8 times those of (a); else (a) if it
\* has more than (b) and more than 3; else (b) if it has more than 3; else
\* (d) if it has more than (b); else (a).
C21_RuleChain ==
    Segmented =>
        LET a  == Counts[1]
            b  == Counts[2]
            c  == Counts[3]
            d  == Counts[4]
            r1 == c > 5 /\ 10 * c < 8 * a
            r2 == a > b /\ a > 3
            r3 == b > 3
            r4 == d > b
        IN  /\ r1 => chosenSteps[1] = 3
            /\ (~r1 /\ r2) => chosenSteps[1] = 1
            /\ (~r1 /\ ~r2 /\ r3) => chosenSteps[1] = 2
            /\ (~r1 /\ ~r2 /\ ~r3 /\ r4) => chosenSteps[1] = 4
            /\ (~r1 /\ ~r2 /\ ~r3 /\ ~r4) => chosenSteps[1] = 1

\* a document whose lines of three letters alternate with empty lines: (a)
\* has as many paragraphs as (b), and (b) is chosen by the third rule
C21_Witness ==
    /\ Segmented
    /\ Counts = <<5, 5, 0, 5>>
    /\ chosenSteps[1] = 2

\* C22: when the candidate chosen by the rule chain has more than 500
\* paragraphs the first safety check switches to (b) if (b) has at least one
\* paragraph and fewer than a fifth of them, else to (c) if (c) has at least
\* one and fewer than a third of them, else keeps the choice; with 500
\* paragraphs or fewer it keeps the choice.
C22_ManyParagraphsCheck ==
    Segmented =>
        LET n == Counts[chosenSteps[1]]
            b == Counts[2]
            c == Counts[3]
        IN  /\ (n > 500 /\ b > 0 /\ 5 * b < n) => chosenSteps[2] = 2
            /\ (n > 500 /\ ~(b > 0 /\ 5 * b < n) /\ c > 0 /\ 3 * c < n) =>
                  chosenSteps[2] = 3
            /\ (n > 500 /\ ~(b > 0 /\ 5 * b < n) /\ ~(c > 0 /\ 3 * c < n)) =>
                  chosenSteps[2] = chosenSteps[1]
            /\ n <= 500 => chosenSteps[2] = chosenSteps[1]

\* lines of three letters with a few empty lines among them: (a) has more
\* than 500 paragraphs, (b) at least 5 and fewer than a fifth of those of
\* (a), and the check switches from (a) to (b), which is returned
C22_Witness ==
    /\ Segmented
    /\ Counts[1] > 500
    /\ Counts[2] >= 5
    /\ chosenSteps = <<1, 2, 2>>
    /\ Len(splitResult.paragraphs) = Counts[2]

\* C23 as stated: when the candidate chosen so far has fewer than 5
\* paragraphs, the normalized text has more than 1000 characters and (a) has
\* at least twice the paragraphs of that candidate, the final choice is (a).
C23_AtLeastDoubleSwitches ==
    (/\ Segmented
     /\ Counts[chosenSteps[2]] < 5
     /\ NormalizedLength > 1000
     /\ Counts[1] >= 2 * Counts[chosenSteps[2]]) =>
        chosenSteps[3] = 1

\* C23: when the candidate chosen so far has fewer than 5 paragraphs, the
\* normalized text has more than 1000 characters and (a) has more than twice
\* the paragraphs of that candidate, the final choice is (a); in every other
\* case, (a) having just twice the paragraphs included, the second safety
\* check keeps the choice.  The final choice is the method reported and its
\* paragraphs are those returned.
C23_MoreThanDoubleSwitches ==
    Segmented =>
        /\ chosenSteps[3] =
              IF /\ Counts[chosenSteps[2]] < 5
                 /\ NormalizedLength > 1000
                 /\ Counts[1] > 2 * Counts[chosenSteps[2]]
              THEN 1
              ELSE chosenSteps[2]
        /\ splitResult.splitInfo.chosenMethod = MethodNames[chosenSteps[3]]
        /\ Len(splitResult.paragraphs) = Counts[chosenSteps[3]]

\* 502 pieces between empty lines, three of them of three letters or more
\* and one of more than ten: the first check goes from (b) to (c), which has
\* one paragraph, and the second from (c) to (a), which has three
C23_Witness ==
    /\ Segmented
    /\ Counts = <<3, 502, 1, 502>>
    /\ chosenSteps = <<2, 3, 1>>
    /\ Len(splitResult.paragraphs) = 3

\* the first safety check changed the choice
FirstCheckFired ==
    /\ Segmented
    /\ Counts[chosenSteps[1]] > 500
    /\ chosenSteps[2] # chosenSteps[1]

\* C26 as stated: when the first safety check changed the choice, fewer
\* paragraphs are returned than the candidate chosen first has, and the
\* second check keeps the choice of the first.
C26_FirstCheckReducesCount ==
    FirstCheckFired =>
        /\ Len(splitResult.paragraphs) < Counts[chosenSteps[1]]
        /\ chosenSteps[3] = chosenSteps[2]

\* C26: when the first safety check changed the choice, either the second
\* check keeps it and fewer paragraphs are returned than the candidate
\* chosen first has, or the candidate it switched to has fewer than 5
\* paragraphs in a text of more than 1000 characters and (a) has more than
\* twice as many, and the paragraphs of (a) are returned.
C26_FirstCheckReducesUnlessUndone ==
    FirstCheckFired =>
        IF /\ Counts[chosenSteps[2]] < 5
           /\ NormalizedLength > 1000
           /\ Counts[1] > 2 * Counts[chosenSteps[2]]
        THEN /\ splitResult.splitInfo.chosenMethod = MethodNames[1]
             /\ Len(splitResult.paragraphs) = Counts[1]
        ELSE /\ splitResult.splitInfo.chosenMethod = MethodNames[chosenSteps[2]]
             /\ Len(splitResult.paragraphs) = Counts[chosenSteps[2]]
             /\ Len(splitResult.paragraphs) < Counts[chosenSteps[1]]

\* 501 lines of eleven letters and 130 of three, no empty line: (c) is
\* chosen first with 501 paragraphs, the first check goes to (b), which has
\* one, and the second returns the 631 paragraphs of (a)
C26_Witness ==
    /\ FirstCheckFired
    /\ Counts = <<631, 1, 501, 1>>
    /\ chosenSteps = <<3, 2, 1>>
    /\ Len(splitResult.paragraphs) = 631

----------------------------------------------------------------------------
(* Properties of the paragraphs searchInFiles finds, checked under         *)
(* SpecParagraph (one matched paragraph) and Spec (whole calls)            *)

\* C25 as stated: the paragraph put in foundParagraphs for a matched
\* paragraph contains the trimmed term, ignoring case.
C25_FoundParagraphHasTerm ==
    pDone = "done" => includes(toLowerCase(processed), ProcessedTerm(pTerm))

\* C25: the paragraph put in foundParagraphs for a matched paragraph
\* contains the trimmed term, ignoring case, when the term has no "|" in it.
C25_FoundParagraphHasTermWithoutBar ==
    (pDone = "done" /\ CountChar(pTerm, "|") = 0) =>
        includes(toLowerCase(processed), ProcessedTerm(pTerm))

\* a restructured paragraph whose base piece is without the term: a later
\* piece brings it
C25_Witness ==
    /\ pDone = "done"
    /\ CountChar(pTerm, "|") = 0
    /\ CountChar(paragraph, "|") = 2
    /\ processed # paragraph
    /\ ~includes(toLowerCase(TrimmedPieces(paragraph)[1]), ProcessedTerm(pTerm))
    /\ includes(toLowerCase(processed), ProcessedTerm(pTerm))

\* the paragraphs found, in the order of the results and within each result,
\* each with the name of its document
FoundEntries ==
    Concat([r \in 1..Len(results) |->
               [i \in 1..Len(results[r].foundParagraphs) |->
                   [fileName |-> results[r].fileName,
                    text     |-> results[r].foundParagraphs[i]]]])

\* the paragraphs of the document of a name, as segmented
SegmentedParagraphs(name) ==
    splitTextIntoParagraphs(
        files[CHOOSE k \in 1..Len(files) : files[k].name = name].content).paragraphs

\* the annotations of the pieces of a paragraph: BASE for piece 0, MATCH for
\* a later piece that has the term, SKIP for one that has not
ExpectedTags(p, processedTerm) ==
    [k \in 1..Len(TrimmedPieces(p)) |->
        (IF k = 1 THEN BaseTag
         ELSE IF includes(toLowerCase(TrimmedPieces(p)[k]), processedTerm)
         THEN MatchTag ELSE SkipTag) \o TrimmedPieces(p)[k]]

\* the k-th debug record is that of the k-th paragraph found
RecordOfFound(k) ==
    /\ debugInfo[k].fileName = FoundEntries[k].fileName
    /\ debugInfo[k].processedParagraph = FoundEntries[k].text
    /\ debugInfo[k].paragraphIndex + 1 \in
          DOMAIN SegmentedParagraphs(debugInfo[k].fileName)
    /\ debugInfo[k].originalParagraph =
          SegmentedParagraphs(debugInfo[k].fileName)[debugInfo[k].paragraphIndex + 1]

\* C24 as stated: a call that returns gives one debug record for each
\* paragraph found, in the same order, with the paragraph as segmented, the
\* paragraph as stored in foundParagraphs, and a selectedSentences list that
\* tags piece 0 as BASE and each later piece as MATCH or SKIP.
C24_DebugRecordTagsEveryPiece ==
    outcome = "returned" =>
        /\ Len(debugInfo) = Len(FoundEntries)
        /\ \A k \in 1..Len(debugInfo) :
              /\ RecordOfFound(k)
              /\ debugInfo[k].debugDetails.selectedSentences =
                    ExpectedTags(debugInfo[k].originalParagraph,
                                 ProcessedTerm(searchTerm))

\* C24: the same, the selectedSentences list being that of the pieces only
\* for a paragraph with at least two "|", which is the paragraph that is
\* restructured, and empty for any other paragraph.
C24_DebugRecordTagsRestructured ==
    outcome = "returned" =>
        /\ Len(debugInfo) = Len(FoundEntries)
        /\ \A k \in 1..Len(debugInfo) :
              /\ RecordOfFound(k)
              /\ debugInfo[k].debugDetails.selectedSentences =
                    IF CountChar(debugInfo[k].originalParagraph, "|") >= 2
                    THEN ExpectedTags(debugInfo[k].originalParagraph,
                                      ProcessedTerm(searchTerm))
                    ELSE <<>>

\* two documents with a paragraph found in each, one of them restructured
\* with a piece kept and a piece dropped
C24_Witness ==
    /\ outcome = "returned"
    /\ Len(results) = 2
    /\ Len(debugInfo) >= 2
    /\ \E k \in 1..Len(debugInfo) :
          /\ debugInfo[k].originalParagraph = <<"b", "|", "a", "|", "b">>
          /\ debugInfo[k].processedParagraph = <<"b", " ", "a">>
          /\ Len(debugInfo[k].debugDetails.selectedSentences) = 3
    /\ \E k \in 1..Len(debugInfo) :
          debugInfo[k].debugDetails.selectedSentences = <<>>

----------------------------------------------------------------------------
(* Properties of the selection of LexicalModule, checked under SpecFiles *)

\* C27: every id in selectedFileIds is the id of a file in files.
C27_SelectionWithinFiles ==
    \A i \in 1..Len(selectedFileIds) :
        \E k \in 1..Len(files) : files[k].id = selectedFileIds[i]

----------------------------------------------------------------------------
(* Properties of LexicalModule, checked under FairSpecModule *)

\* C28: while results are on display, the term of the search box, which
\* heads the results, is highlighted in them and is passed to exportToDocx,
\* is the term of the call of searchInFiles that gave them.
C28_DisplayedTermIsSearchedTerm ==
    /\ results # <<>> => searchTerm = producedBy
    /\ (results # <<>> /\ isExporting /\ xResults = results) => xTerm = producedBy

ExportRunning == xpc \in {"called", "imported", "built", "saved", "failed"}

\* C29: isSearching is true exactly while handleSearch runs past its guards
\* and isExporting exactly while handleExportDocx runs with results, so both
\* are false once the handler has ended, whether searchInFiles returned or
\* threw and exportToDocx resolved or rejected; each flag that is true
\* becomes false; handleExportDocx with no results changes nothing of the
\* component.
C29_BusyFlagsReturnToFalse ==
    /\ [](isSearching <=> searchPc = "searching")
    /\ [](isExporting <=> ExportRunning)
    /\ [][ (xpc \in {"idle", "done"} /\ Len(results) = 0 /\ xpc' # xpc) =>
              UNCHANGED <<searchVars, isExporting, toast, xResults, xTerm,
                          xDebugInfo, savedAs>> ]_vars
    /\ isSearching ~> ~isSearching
    /\ isExporting ~> ~isExporting

\* a search that threw while an export was under way has ended, and the
\* export has been rejected and handled: both flags are false again
C29_Witness ==
    /\ ~isSearching
    /\ ~isExporting
    /\ searchPc = "idle"
    /\ xpc = "done"
    /\ xError
    /\ toast = "Erro na exportação"
    /\ searchTerm = <<"(">>
    /\ results # <<>>

----------------------------------------------------------------------------
(* Properties of OpenAIService, checked under SpecChat *)

\* the id of the response most recently received for a conversation, 0 if none
LastReceived(ids, conversationId) ==
    IF ids[conversationId] = {} THEN 0
    ELSE CHOOSE r \in ids[conversationId] :
            \A q \in ids[conversationId] : q <= r

RequestSent == requestCount' = requestCount + 1

\* C30: openaiCall on an id with no stored response first sends the request
\* of an initialization, without previous_response_id; every other request
\* sent for an id carries the id of the response most recently received for
\* that id, which is none of those received before the last reset of the id;
\* initializeConversation on an id with a stored response fails, sends
\* nothing and leaves the map as it is.
C30_ConversationsStayChained ==
    /\ [][ (pending = <<>> /\ pending' # <<>> /\ pending'.op = "openaiCall"
              /\ pending'.conversationId # <<>>
              /\ ~has(conversationStorage, pending'.conversationId))
           => /\ RequestSent
              /\ pending'.stage = "initialize"
              /\ lastRequest'.initial
              /\ lastRequest'.conversationId = pending'.conversationId
              /\ lastRequest'.previous_response_id = 0 ]_vars
    /\ [][ (RequestSent /\ lastRequest'.conversationId # <<>>)
           => IF lastRequest'.initial
              THEN lastRequest'.previous_response_id = 0
              ELSE /\ lastRequest'.previous_response_id # 0
                   /\ lastRequest'.previous_response_id =
                         LastReceived(receivedIds', lastRequest'.conversationId)
                   /\ lastRequest'.previous_response_id \notin
                         staleIds'[lastRequest'.conversationId] ]_vars
    /\ [][ (pending = <<>> /\ chatResult' # chatResult
              /\ chatResult'.op = "initializeConversation"
              /\ has(conversationStorage, chatResult'.conversationId))
           => /\ chatResult'.outcome = "already exists"
              /\ conversationStorage' = conversationStorage
              /\ ~RequestSent ]_vars

\* a conversation that was reset and started again: the call awaits the
\* answer to a request that carries the id received since the reset
C30_Witness ==
    /\ pending # <<>>
    /\ pending.stage = "call"
    /\ lastRequest.conversationId = <<"c", "1">>
    /\ staleIds[<<"c", "1">>] # {}
    /\ lastRequest.previous_response_id # 0
    /\ lastRequest.previous_response_id \notin staleIds[<<"c", "1">>]
    /\ chatResult # <<>>
    /\ chatResult.outcome = "already exists"

============================================================================
